---- MODULE Spec2Model ----
(***************************************************************************)
(* DomainHunter: the availability checker (package checker) as a state     *)
(* machine.  One behaviour is one invocation of Check, CheckBulk or        *)
(* CheckBulkHybrid on a Checker: the calling goroutine (mainpc) and the    *)
(* goroutines it spawns, one per domain and per phase.  The DNS resolver   *)
(* and the WHOIS servers are the environment: each lookup draws its answer *)
(* from the answers the network may give for that domain.                  *)
(*                                                                         *)
(* Strings are TLA+ strings; strings.Contains and strings.ToLower are      *)
(* computed character by character.  DomainResult.CheckedAt (wall-clock    *)
(* time) and the never-assigned DomainResult.Error are not modelled.       *)
(***************************************************************************)
EXTENDS Integers, Sequences, FiniteSets, TLC

----------------------------------------------------------------------------
(* Bounds of the model *)

\* longest input list of the general runs
MaxN == 2

\* length of the input list of the runs that fill the WHOIS semaphore
MaxWide == 6

(* Program constants *)

\* make(chan struct{}, 50): Phase 1 semaphore of CheckBulkHybrid
DnsCap == 50

\* make(chan struct{}, 5): Phase 2 semaphore of CheckBulkHybrid
WhoisCap == 5

\* make(chan struct{}, 5): semaphore of CheckBulk
BulkCap == 5

----------------------------------------------------------------------------
(* models.DomainStatus and models.DomainResult *)

StatusAvailable == "available"
StatusTaken == "taken"
StatusError == "error"
StatusChecking == "checking"

\* the zero value of a DomainResult, as make([]models.DomainResult, n) fills it
ZeroResult == [Domain |-> "", Status |-> ""]

----------------------------------------------------------------------------
(* strings.ToLower and strings.Contains *)

UpperCase ==
  [c \in {"A","B","C","D","E","F","G","H","I","J","K","L","M",
          "N","O","P","Q","R","S","T","U","V","W","X","Y","Z"} |->
     CASE c = "A" -> "a" [] c = "B" -> "b" [] c = "C" -> "c" [] c = "D" -> "d"
       [] c = "E" -> "e" [] c = "F" -> "f" [] c = "G" -> "g" [] c = "H" -> "h"
       [] c = "I" -> "i" [] c = "J" -> "j" [] c = "K" -> "k" [] c = "L" -> "l"
       [] c = "M" -> "m" [] c = "N" -> "n" [] c = "O" -> "o" [] c = "P" -> "p"
       [] c = "Q" -> "q" [] c = "R" -> "r" [] c = "S" -> "s" [] c = "T" -> "t"
       [] c = "U" -> "u" [] c = "V" -> "v" [] c = "W" -> "w" [] c = "X" -> "x"
       [] c = "Y" -> "y" [] c = "Z" -> "z"]

LowerChar(c) == IF c \in DOMAIN UpperCase THEN UpperCase[c] ELSE c

RECURSIVE LowerFrom(_, _)
LowerFrom(s, i) ==
  IF i > Len(s) THEN ""
  ELSE LowerChar(SubSeq(s, i, i)) \o LowerFrom(s, i + 1)

\* the text is compared as it was sent
ToLowerUnchanged(s) == s

ToLower(s) == LowerFrom(s, 1)

Contains(s, substr) ==
  \E i \in 1..(Len(s) - Len(substr) + 1) :
     SubSeq(s, i, i + Len(substr) - 1) = substr

----------------------------------------------------------------------------
(* The pattern lists of the WHOIS classifier *)

takenPatterns ==
  << "registrar:", "registrant:", "creation date:", "created:",
     "registry expiry date:", "expiration date:", "name server:",
     "nameserver:", "nserver:", "dnssec:", "registrar iana id:",
     "domain status:", "admin contact:", "tech contact:",
     "billing contact:" >>

availablePatterns ==
  << "no match for", "not found", "no entries found", "domain not found",
     "no data found", "status: free", "status: available",
     "no object found", "object does not exist", "nothing found",
     "no information available", "is available for registration",
     "is free", "domain is available",
     "the queried object does not exist", "no such domain",
     "domain name has not been registered", "no matching record" >>

MatchesAny(text, patterns) ==
  \E k \in 1..Len(patterns) : Contains(text, patterns[k])

\* the premium/platinum rule and the reserved-name rule
PremiumOrReserved(whoisLower) ==
  \/ /\ (Contains(whoisLower, "premium") \/ Contains(whoisLower, "platinum"))
     /\ (\/ Contains(whoisLower, "purchase")
         \/ Contains(whoisLower, "contact")
         \/ Contains(whoisLower, "offer")
         \/ Contains(whoisLower, "reserved"))
  \/ Contains(whoisLower, "this name is reserved")

----------------------------------------------------------------------------
(* The environment: what a lookup can answer *)

Domains == {"ab.io", "xy.io"}

\* LookupHost: err == nil; *net.DNSError with IsNotFound; *net.DNSError
\* without IsNotFound (timeout, refused, malformed); any other error
DnsAnswers == {"resolves", "notfound", "dnserror", "othererror"}

HasErr(a) == a # "resolves"
IsDNSError(a) == a \in {"notfound", "dnserror"}
IsNotFound(a) == a = "notfound"

\* whois.Whois: err != nil ("fail") or a response body
WhoisBodies == {"nomatch", "registered", "premium", "unclear"}
WhoisAnswers == {"fail"} \cup WhoisBodies

\* a lookup that never answers: whois.Whois is called without a deadline
WhoisOutcomes == WhoisAnswers \cup {"hang"}

WhoisBody(a, domain) ==
  CASE a = "nomatch"    -> "No match for " \o domain
    [] a = "registered" -> "Domain Name: " \o domain \o " Registrar: Example Inc"
    [] a = "premium"    -> "NOT FOUND. Platinum name, contact the registry"
    [] a = "unclear"    -> "Rate limit exceeded"

----------------------------------------------------------------------------
(* Checker.Check and Checker.checkDNS *)

\* whoisLower := strings.ToLower(whoisResult), for every body the WHOIS
\* servers of the model answer
WhoisLower ==
  [d \in Domains, a \in WhoisBodies |-> ToLower(WhoisBody(a, d))]

\* a response that matches no list counts as unregistered
ClassifyUnclearAvailable(whoisLower) ==
  IF MatchesAny(whoisLower, takenPatterns) THEN StatusTaken
  ELSE IF PremiumOrReserved(whoisLower) THEN StatusTaken
  ELSE StatusAvailable

\* no rule for premium or reserved names
ClassifyWithoutPremiumRule(whoisLower) ==
  IF MatchesAny(whoisLower, takenPatterns) THEN StatusTaken
  ELSE IF MatchesAny(whoisLower, availablePatterns) THEN StatusAvailable
  ELSE StatusTaken

\* the availability patterns are looked for before anything else
ClassifyAvailableFirst(whoisLower) ==
  IF MatchesAny(whoisLower, availablePatterns) THEN StatusAvailable
  ELSE StatusTaken

\* the classification of a lower-cased response body
Classify(whoisLower) ==
  IF MatchesAny(whoisLower, takenPatterns) THEN StatusTaken
  ELSE IF PremiumOrReserved(whoisLower) THEN StatusTaken
  ELSE IF MatchesAny(whoisLower, availablePatterns) THEN StatusAvailable
  ELSE StatusTaken

\* a failed WHOIS lookup falls back to an optimistic verdict
CheckFailOpen(domain, a) ==
  IF a = "fail"
  THEN [Domain |-> domain, Status |-> StatusAvailable]
  ELSE [Domain |-> domain, Status |-> Classify(WhoisLower[domain, a])]

Check(domain, a) ==
  IF a = "fail"
  THEN [Domain |-> domain, Status |-> StatusTaken]
  ELSE [Domain |-> domain, Status |-> Classify(WhoisLower[domain, a])]

\* every DNS error counts as "not registered"
checkDNSErrorsAvailable(domain, a) ==
  IF HasErr(a)
  THEN [Domain |-> domain, Status |-> StatusAvailable]
  ELSE [Domain |-> domain, Status |-> StatusTaken]

\* an unclassified DNS error is surfaced as StatusError
checkDNSReportsError(domain, a) ==
  IF HasErr(a)
  THEN IF IsDNSError(a) /\ IsNotFound(a)
       THEN [Domain |-> domain, Status |-> StatusAvailable]
       ELSE [Domain |-> domain, Status |-> StatusError]
  ELSE [Domain |-> domain, Status |-> StatusTaken]

checkDNS(domain, a) ==
  IF HasErr(a)
  THEN IF IsDNSError(a) /\ IsNotFound(a)
       THEN [Domain |-> domain, Status |-> StatusAvailable]
       ELSE [Domain |-> domain, Status |-> StatusTaken]
  ELSE [Domain |-> domain, Status |-> StatusTaken]

\* Check on one outcome of whois.Whois: an error, or any response text
CheckText(domain, failed, whoisResult) ==
  IF failed
  THEN [Domain |-> domain, Status |-> StatusTaken]
  ELSE [Domain |-> domain, Status |-> Classify(ToLower(whoisResult))]

\* Checker.Check of the DNS-only variant of the checker
CheckDnsOnly(domain, a) ==
  IF HasErr(a)
  THEN IF IsDNSError(a) /\ IsNotFound(a)
       THEN [Domain |-> domain, Status |-> StatusAvailable]
       ELSE [Domain |-> domain, Status |-> StatusAvailable]
  ELSE [Domain |-> domain, Status |-> StatusTaken]

\* Checker.checkDNS of the WHOIS-first variant, the fallback of its Check
checkDNSFallback(domain, a) ==
  IF HasErr(a)
  THEN IF IsDNSError(a) /\ IsNotFound(a)
       THEN [Domain |-> domain, Status |-> StatusAvailable]
       ELSE [Domain |-> domain, Status |-> StatusAvailable]
  ELSE [Domain |-> domain, Status |-> StatusTaken]

----------------------------------------------------------------------------
(* State *)

VARIABLES
  op,          \* the entry point invoked: "single", "bulk" or "hybrid"
  domains,     \* the input list
  dnsMay,      \* domain -> answers the resolver may give
  whoisMay,    \* domain -> outcomes a WHOIS lookup may have
  mainpc,      \* position of the calling goroutine
  next,        \* cursor of the spawning loop the caller is in
  results,     \* CheckBulk: results
  dnsResults,  \* CheckBulkHybrid: dnsResults
  wg,          \* CheckBulk / Phase 1: counter of wg
  semaphore,   \* CheckBulk / Phase 1: permits taken from semaphore
  candidates,  \* Phase 2: candidates
  wg2,         \* Phase 2: counter of wg2
  whoisSem,    \* Phase 2: permits taken from whoisSem
  bulkTask,    \* index -> position of the CheckBulk goroutine
  dnsTask,     \* index -> position of the Phase 1 goroutine
  whoisTask,   \* index -> position of the Phase 2 goroutine
  dnsOut,      \* index -> answer its DNS probe received ("none" before)
  whoisOut,    \* index -> outcome of its WHOIS lookup ("none" before)
  writes,      \* index -> the goroutines that wrote the slot, in order
  lookups,     \* index -> number of DNS probes and WHOIS lookups made for it
  output,      \* the slice returned to the caller
  probe,       \* one lookup outcome handed to the checkers
  verdict,     \* what each checker made of probe
  world,       \* the names nobody has registered
  request,     \* the HTTP request being served
  hpc,         \* the position of the handler
  length,      \* ScanShort: the parsed length
  prefix,      \* ScanShort: the normalised prefix
  generated,   \* the domains returned by the generator
  calls,       \* how often the generator and the checker were called
  allResults,  \* the slice returned by CheckBulkHybrid
  response,    \* what was written to the http.ResponseWriter
  dpc,         \* the position of the daily scan
  variant,     \* which main of the daily scan runs
  envSet,      \* RESEND_API_KEY and EMAIL_TO are both set
  batchNo,     \* daily scan: the next entry of prefixes2
  allAvailable, \* daily scan: the results collected for the report
  found,       \* every Available result a batch of the daily scan returned
  emailed,     \* the calls of sendEmail, each with the list it was given
  exitCode,    \* the exit status of the daily scan (-1 while it runs)
  batch        \* the CheckBulkHybrid invocations running side by side

vars == << op, domains, dnsMay, whoisMay, mainpc, next, results, dnsResults,
           wg, semaphore, candidates, wg2, whoisSem, bulkTask, dnsTask,
           whoisTask, dnsOut, whoisOut, writes, lookups, output,
           probe, verdict, world, request, hpc, length, prefix, generated,
           calls, allResults, response, dpc, variant, envSet, batchNo,
           allAvailable, found, emailed, exitCode, batch >>

\* the state of the operations outside the batch runners
classifyVars == << probe, verdict >>
handlerVars == << request, hpc, length, prefix, generated, calls, allResults,
                 response >>
dailyVars == << dpc, variant, envSet, batchNo, allAvailable, found, emailed,
               exitCode >>
app == << classifyVars, world, handlerVars, dailyVars, batch >>

\* no lookup outcome, no verdict
NoProbe == [kind |-> "none", domain |-> "", failed |-> FALSE,
            whoisResult |-> "", answer |-> "none", elapsed |-> 0]
NoVerdict == [check |-> ZeroResult, dnsOnly |-> ZeroResult,
              fallback |-> ZeroResult, checkDNS |-> ZeroResult]

ClassifyIdle == probe = NoProbe /\ verdict = NoVerdict

\* no request is being served
NoRequest == [method |-> "", length |-> "", prefix |-> ""]
NoCalls == [generate |-> 0, hybrid |-> 0, bulk |-> 0]
NoResponse ==
  [code |-> 0, page |-> "", available |-> << >>, total |-> 0, checked |-> 0]

HandlerIdle ==
  /\ request = NoRequest /\ hpc = "idle"
  /\ length = 0 /\ prefix = ""
  /\ generated = << >> /\ calls = NoCalls
  /\ allResults = << >> /\ response = NoResponse

\* the daily scan is not running
DailyIdle ==
  /\ dpc = "idle" /\ variant = "none" /\ envSet = FALSE /\ batchNo = 0
  /\ allAvailable = << >> /\ found = {} /\ emailed = << >>
  /\ exitCode = -1

AppIdle ==
  /\ ClassifyIdle
  /\ world = {}
  /\ HandlerIdle
  /\ DailyIdle
  /\ batch = << >>

env == << op, domains, dnsMay, whoisMay >>

N == Len(domains)
Idx == 1..N

Lists(n) == UNION { [1..k -> Domains] : k \in 0..n }

\* make([]models.DomainResult, len(domains))
MakeResults(ds) == [i \in 1..Len(ds) |-> ZeroResult]

Start(o, ds) ==
  /\ op = o
  /\ domains = ds
  /\ mainpc = (CASE o = "single" -> "call" [] o = "bulk" -> "spawn"
                 [] o = "hybrid" -> "spawn1")
  /\ next = 1
  /\ results = IF o = "bulk" THEN MakeResults(ds) ELSE << >>
  /\ dnsResults = IF o = "hybrid" THEN MakeResults(ds) ELSE << >>
  /\ wg = 0 /\ semaphore = 0
  /\ candidates = << >>
  /\ wg2 = 0 /\ whoisSem = 0
  /\ bulkTask = [i \in 1..Len(ds) |-> "idle"]
  /\ dnsTask = [i \in 1..Len(ds) |-> "idle"]
  /\ whoisTask = [i \in 1..Len(ds) |-> "idle"]
  /\ dnsOut = [i \in 1..Len(ds) |-> "none"]
  /\ whoisOut = [i \in 1..Len(ds) |-> "none"]
  /\ writes = [i \in 1..Len(ds) |-> << >>]
  /\ lookups = [i \in 1..Len(ds) |-> [dns |-> 0, whois |-> 0]]
  /\ output = << >>
  /\ AppIdle

\* any entry point, any short list, any answer from the network
InitSmall ==
  /\ dnsMay = [d \in Domains |-> DnsAnswers]
  /\ whoisMay = [d \in Domains |-> WhoisOutcomes]
  /\ \E o \in {"single", "bulk", "hybrid"} :
       \E ds \in (IF o = "single" THEN [1..1 -> Domains] ELSE Lists(MaxN)) :
          Start(o, ds)

\* a batch longer than the WHOIS semaphore, every name unregistered
InitWide ==
  /\ dnsMay = [d \in Domains |-> {"notfound"}]
  /\ whoisMay = [d \in Domains |-> {"nomatch"}]
  /\ \E o \in {"bulk", "hybrid"} : Start(o, [i \in 1..MaxWide |-> "xy.io"])

Init == InitSmall \/ InitWide

----------------------------------------------------------------------------
(* Check called directly (handlers.CheckDomain) *)

SingleCheck ==
  /\ op = "single" /\ mainpc = "call"
  /\ \E a \in whoisMay[domains[1]] \ {"hang"} :
       /\ output' = << Check(domains[1], a) >>
       /\ whoisOut' = [whoisOut EXCEPT ![1] = a]
  /\ mainpc' = "returned"
  /\ lookups' = [lookups EXCEPT ![1].whois = @ + 1]
  /\ UNCHANGED << app, env, next, results, dnsResults, wg, semaphore, candidates,
                  wg2, whoisSem, bulkTask, dnsTask, whoisTask, dnsOut, writes >>

SingleHang ==
  /\ op = "single" /\ mainpc = "call"
  /\ "hang" \in whoisMay[domains[1]]
  /\ whoisOut' = [whoisOut EXCEPT ![1] = "hang"]
  /\ mainpc' = "hung"
  /\ lookups' = [lookups EXCEPT ![1].whois = @ + 1]
  /\ UNCHANGED << app, env, next, results, dnsResults, wg, semaphore, candidates,
                  wg2, whoisSem, bulkTask, dnsTask, whoisTask, dnsOut, writes,
                  output >>

----------------------------------------------------------------------------
(* CheckBulk *)

\* wg.Add(1); go func(idx, d) {...}(i, domain)
BulkSpawn ==
  /\ op = "bulk" /\ mainpc = "spawn" /\ next <= N
  /\ wg' = wg + 1
  /\ bulkTask' = [bulkTask EXCEPT ![next] = "acquire"]
  /\ next' = next + 1
  /\ UNCHANGED << app, env, lookups, mainpc, results, dnsResults, semaphore, candidates,
                  wg2, whoisSem, dnsTask, whoisTask, dnsOut, whoisOut, writes,
                  output >>

\* semaphore <- struct{}{}
\* the send on the semaphore never blocks
BulkAcquireUnbounded(i) ==
  /\ bulkTask[i] = "acquire"
  /\ semaphore' = semaphore + 1
  /\ bulkTask' = [bulkTask EXCEPT ![i] = "check"]
  /\ UNCHANGED << app, env, lookups, mainpc, next, results, dnsResults, wg,
                  candidates, wg2, whoisSem, dnsTask, whoisTask, dnsOut,
                  whoisOut, writes, output >>

BulkAcquire(i) ==
  /\ bulkTask[i] = "acquire"
  /\ semaphore < BulkCap
  /\ semaphore' = semaphore + 1
  /\ bulkTask' = [bulkTask EXCEPT ![i] = "check"]
  /\ UNCHANGED << app, env, lookups, mainpc, next, results, dnsResults, wg, candidates,
                  wg2, whoisSem, dnsTask, whoisTask, dnsOut, whoisOut, writes,
                  output >>

\* after its first lookup the checker answers as if the server refused
BulkCheckRemembers(i) ==
  /\ bulkTask[i] = "check"
  /\ \E a \in whoisMay[domains[i]] \ {"hang"} :
       /\ results' = [results EXCEPT
                      ![i] = IF \E j \in Idx : lookups[j].whois > 0
                             THEN Check(domains[i], "fail")
                             ELSE Check(domains[i], a)]
       /\ whoisOut' = [whoisOut EXCEPT ![i] = a]
  /\ writes' = [writes EXCEPT ![i] = Append(@, "bulk")]
  /\ bulkTask' = [bulkTask EXCEPT ![i] = "release"]
  /\ lookups' = [lookups EXCEPT ![i].whois = @ + 1]
  /\ UNCHANGED << app, env, mainpc, next, dnsResults, wg, semaphore, candidates,
                  wg2, whoisSem, dnsTask, whoisTask, dnsOut, output >>

\* results[idx] = c.Check(d)
BulkCheck(i) ==
  /\ bulkTask[i] = "check"
  /\ \E a \in whoisMay[domains[i]] \ {"hang"} :
       /\ results' = [results EXCEPT ![i] = Check(domains[i], a)]
       /\ whoisOut' = [whoisOut EXCEPT ![i] = a]
  /\ writes' = [writes EXCEPT ![i] = Append(@, "bulk")]
  /\ bulkTask' = [bulkTask EXCEPT ![i] = "release"]
  /\ lookups' = [lookups EXCEPT ![i].whois = @ + 1]
  /\ UNCHANGED << app, env, mainpc, next, dnsResults, wg, semaphore, candidates,
                  wg2, whoisSem, dnsTask, whoisTask, dnsOut, output >>

\* whois.Whois never answers
BulkHang(i) ==
  /\ bulkTask[i] = "check"
  /\ "hang" \in whoisMay[domains[i]]
  /\ whoisOut' = [whoisOut EXCEPT ![i] = "hang"]
  /\ bulkTask' = [bulkTask EXCEPT ![i] = "hung"]
  /\ lookups' = [lookups EXCEPT ![i].whois = @ + 1]
  /\ UNCHANGED << app, env, mainpc, next, results, dnsResults, wg, semaphore,
                  candidates, wg2, whoisSem, dnsTask, whoisTask, dnsOut,
                  writes, output >>

\* <-semaphore
BulkRelease(i) ==
  /\ bulkTask[i] = "release"
  /\ semaphore' = semaphore - 1
  /\ bulkTask' = [bulkTask EXCEPT ![i] = "exit"]
  /\ UNCHANGED << app, env, lookups, mainpc, next, results, dnsResults, wg, candidates,
                  wg2, whoisSem, dnsTask, whoisTask, dnsOut, whoisOut, writes,
                  output >>

\* defer wg.Done()
BulkDone(i) ==
  /\ bulkTask[i] = "exit"
  /\ wg' = wg - 1
  /\ bulkTask' = [bulkTask EXCEPT ![i] = "done"]
  /\ UNCHANGED << app, env, lookups, mainpc, next, results, dnsResults, semaphore,
                  candidates, wg2, whoisSem, dnsTask, whoisTask, dnsOut,
                  whoisOut, writes, output >>

\* wg.Wait(); return results
BulkReturn ==
  /\ op = "bulk" /\ mainpc = "spawn" /\ next > N
  /\ wg = 0
  /\ output' = results
  /\ mainpc' = "returned"
  /\ UNCHANGED << app, env, lookups, next, results, dnsResults, wg, semaphore, candidates,
                  wg2, whoisSem, bulkTask, dnsTask, whoisTask, dnsOut,
                  whoisOut, writes >>

----------------------------------------------------------------------------
(* CheckBulkHybrid, Phase 1: DNS sweep *)

\* wg.Add(1); go func(idx, d) {...}(i, domain)
Spawn1 ==
  /\ op = "hybrid" /\ mainpc = "spawn1" /\ next <= N
  /\ wg' = wg + 1
  /\ dnsTask' = [dnsTask EXCEPT ![next] = "acquire"]
  /\ next' = next + 1
  /\ UNCHANGED << app, env, lookups, mainpc, results, dnsResults, semaphore, candidates,
                  wg2, whoisSem, bulkTask, whoisTask, dnsOut, whoisOut,
                  writes, output >>

\* semaphore <- struct{}{}
DnsAcquire(i) ==
  /\ dnsTask[i] = "acquire"
  /\ semaphore < DnsCap
  /\ semaphore' = semaphore + 1
  /\ dnsTask' = [dnsTask EXCEPT ![i] = "lookup"]
  /\ UNCHANGED << app, env, lookups, mainpc, next, results, dnsResults, wg, candidates,
                  wg2, whoisSem, bulkTask, whoisTask, dnsOut, whoisOut,
                  writes, output >>

\* the probe answers and the result lands in completion order
DnsLookupInCompletionOrder(i) ==
  LET slot == 1 + Cardinality({j \in Idx : dnsOut[j] # "none"})
  IN  /\ dnsTask[i] = "lookup"
      /\ \E a \in dnsMay[domains[i]] :
           /\ dnsResults' = [dnsResults EXCEPT ![slot] = checkDNS(domains[i], a)]
           /\ dnsOut' = [dnsOut EXCEPT ![i] = a]
      /\ writes' = [writes EXCEPT ![slot] = Append(@, "dns")]
      /\ dnsTask' = [dnsTask EXCEPT ![i] = "release"]
      /\ lookups' = [lookups EXCEPT ![i].dns = @ + 1]
      /\ UNCHANGED << app, env, mainpc, next, results, wg, semaphore, candidates,
                      wg2, whoisSem, bulkTask, whoisTask, whoisOut, output >>

\* dnsResults[idx] = c.checkDNS(d)
\* a lookup that fails with a transport error is tried a second time
DnsLookupRetry(i) ==
  /\ dnsTask[i] = "lookup"
  /\ \E a \in dnsMay[domains[i]] :
       LET again == a \in {"dnserror", "othererror"} /\ lookups[i].dns = 0
       IN  /\ dnsResults' = [dnsResults EXCEPT
                               ![i] = IF again THEN @
                                      ELSE checkDNS(domains[i], a)]
           /\ dnsOut' = [dnsOut EXCEPT ![i] = a]
           /\ writes' = [writes EXCEPT
                           ![i] = IF again THEN @ ELSE Append(@, "dns")]
           /\ dnsTask' = [dnsTask EXCEPT
                            ![i] = IF again THEN "lookup" ELSE "release"]
  /\ lookups' = [lookups EXCEPT ![i].dns = @ + 1]
  /\ UNCHANGED << app, env, mainpc, next, results, wg, semaphore, candidates,
                  wg2, whoisSem, bulkTask, whoisTask, whoisOut, output >>

DnsLookup(i) ==
  /\ dnsTask[i] = "lookup"
  /\ \E a \in dnsMay[domains[i]] :
       /\ dnsResults' = [dnsResults EXCEPT ![i] = checkDNS(domains[i], a)]
       /\ dnsOut' = [dnsOut EXCEPT ![i] = a]
  /\ writes' = [writes EXCEPT ![i] = Append(@, "dns")]
  /\ dnsTask' = [dnsTask EXCEPT ![i] = "release"]
  /\ lookups' = [lookups EXCEPT ![i].dns = @ + 1]
  /\ UNCHANGED << app, env, mainpc, next, results, wg, semaphore, candidates,
                  wg2, whoisSem, bulkTask, whoisTask, whoisOut, output >>

\* <-semaphore
DnsRelease(i) ==
  /\ dnsTask[i] = "release"
  /\ semaphore' = semaphore - 1
  /\ dnsTask' = [dnsTask EXCEPT ![i] = "exit"]
  /\ UNCHANGED << app, env, lookups, mainpc, next, results, dnsResults, wg, candidates,
                  wg2, whoisSem, bulkTask, whoisTask, dnsOut, whoisOut,
                  writes, output >>

\* defer wg.Done()
DnsDone(i) ==
  /\ dnsTask[i] = "exit"
  /\ wg' = wg - 1
  /\ dnsTask' = [dnsTask EXCEPT ![i] = "done"]
  /\ UNCHANGED << app, env, lookups, mainpc, next, results, dnsResults, semaphore,
                  candidates, wg2, whoisSem, bulkTask, whoisTask, dnsOut,
                  whoisOut, writes, output >>

----------------------------------------------------------------------------
(* CheckBulkHybrid, Phase 2: WHOIS confirmation *)

\* the indices 1..n, in order, whose result is marked available
RECURSIVE Collect(_, _)
Collect(rs, n) ==
  IF n = 0 THEN << >>
  ELSE IF rs[n].Status = StatusAvailable
       THEN Append(Collect(rs, n - 1), n)
       ELSE Collect(rs, n - 1)

\* every index is confirmed, whatever Phase 1 found
SelectEvery ==
  /\ op = "hybrid" /\ mainpc = "spawn1" /\ next > N
  /\ wg = 0
  /\ candidates' = [i \in 1..N |-> i]
  /\ next' = 1
  /\ mainpc' = "spawn2"
  /\ UNCHANGED << app, env, lookups, results, dnsResults, wg, semaphore, wg2, whoisSem,
                  bulkTask, dnsTask, whoisTask, dnsOut, whoisOut, writes,
                  output >>

\* the candidates are collected without waiting for the DNS goroutines
SelectWithoutWait ==
  /\ op = "hybrid" /\ mainpc = "spawn1" /\ next > N
  /\ candidates' = Collect(dnsResults, N)
  /\ next' = 1
  /\ mainpc' = "spawn2"
  /\ UNCHANGED << app, env, lookups, results, dnsResults, wg, semaphore, wg2,
                  whoisSem, bulkTask, dnsTask, whoisTask, dnsOut, whoisOut,
                  writes, output >>

\* wg.Wait(); for i, r := range dnsResults { if r.Status == StatusAvailable
\*   { candidates = append(candidates, i) } }
Select ==
  /\ op = "hybrid" /\ mainpc = "spawn1" /\ next > N
  /\ wg = 0
  /\ candidates' = Collect(dnsResults, N)
  /\ next' = 1
  /\ mainpc' = "spawn2"
  /\ UNCHANGED << app, env, lookups, results, dnsResults, wg, semaphore, wg2, whoisSem,
                  bulkTask, dnsTask, whoisTask, dnsOut, whoisOut, writes,
                  output >>

\* only the first candidate is confirmed
Spawn2FirstOnly ==
  /\ op = "hybrid" /\ mainpc = "spawn2" /\ next <= Len(candidates)
  /\ wg2' = wg2 + 1
  /\ whoisTask' = [whoisTask EXCEPT ![candidates[next]] = "acquire"]
  /\ next' = Len(candidates) + 1
  /\ UNCHANGED << app, env, lookups, mainpc, results, dnsResults, wg,
                  semaphore, candidates, whoisSem, bulkTask, dnsTask, dnsOut,
                  whoisOut, writes, output >>

\* wg2.Add(1); go func(i int) {...}(idx)
Spawn2 ==
  /\ op = "hybrid" /\ mainpc = "spawn2" /\ next <= Len(candidates)
  /\ wg2' = wg2 + 1
  /\ whoisTask' = [whoisTask EXCEPT ![candidates[next]] = "acquire"]
  /\ next' = next + 1
  /\ UNCHANGED << app, env, lookups, mainpc, results, dnsResults, wg, semaphore, candidates,
                  whoisSem, bulkTask, dnsTask, dnsOut, whoisOut, writes,
                  output >>

\* the permit is taken whatever the occupancy
WhoisAcquireUnbounded(i) ==
  /\ whoisTask[i] = "acquire"
  /\ whoisSem' = whoisSem + 1
  /\ whoisTask' = [whoisTask EXCEPT ![i] = "check"]
  /\ UNCHANGED << app, env, lookups, mainpc, next, results, dnsResults, wg, semaphore,
                  candidates, wg2, bulkTask, dnsTask, dnsOut, whoisOut,
                  writes, output >>

\* whoisSem <- struct{}{}
WhoisAcquire(i) ==
  /\ whoisTask[i] = "acquire"
  /\ whoisSem < WhoisCap
  /\ whoisSem' = whoisSem + 1
  /\ whoisTask' = [whoisTask EXCEPT ![i] = "check"]
  /\ UNCHANGED << app, env, lookups, mainpc, next, results, dnsResults, wg, semaphore,
                  candidates, wg2, bulkTask, dnsTask, dnsOut, whoisOut,
                  writes, output >>

\* dnsResults[i] = c.Check(domains[i])
\* a failed WHOIS lookup aborts the batch: every slot is marked Taken
WhoisCheckAbortsBatch(i) ==
  /\ whoisTask[i] = "check"
  /\ \E a \in whoisMay[domains[i]] \ {"hang"} :
       /\ dnsResults' =
            IF a = "fail"
            THEN [j \in Idx |-> [Domain |-> domains[j],
                                 Status |-> StatusTaken]]
            ELSE [dnsResults EXCEPT ![i] = Check(domains[i], a)]
       /\ whoisOut' = [whoisOut EXCEPT ![i] = a]
  /\ writes' = [writes EXCEPT ![i] = Append(@, "whois")]
  /\ whoisTask' = [whoisTask EXCEPT ![i] = "release"]
  /\ lookups' = [lookups EXCEPT ![i].whois = @ + 1]
  /\ UNCHANGED << app, env, mainpc, next, results, wg, semaphore, candidates, wg2,
                  whoisSem, bulkTask, dnsTask, dnsOut, output >>

\* the confirmation stamps every slot of the batch, not only its own
WhoisCheckStampsAll(i) ==
  /\ whoisTask[i] = "check"
  /\ \E a \in whoisMay[domains[i]] \ {"hang"} :
       /\ dnsResults' = [dnsResults EXCEPT ![i] = Check(domains[i], a)]
       /\ whoisOut' = [whoisOut EXCEPT ![i] = a]
  /\ writes' = [j \in Idx |-> Append(writes[j], "whois")]
  /\ whoisTask' = [whoisTask EXCEPT ![i] = "release"]
  /\ lookups' = [lookups EXCEPT ![i].whois = @ + 1]
  /\ UNCHANGED << app, env, mainpc, next, results, wg, semaphore, candidates, wg2,
                  whoisSem, bulkTask, dnsTask, dnsOut, output >>

WhoisCheck(i) ==
  /\ whoisTask[i] = "check"
  /\ \E a \in whoisMay[domains[i]] \ {"hang"} :
       /\ dnsResults' = [dnsResults EXCEPT ![i] = Check(domains[i], a)]
       /\ whoisOut' = [whoisOut EXCEPT ![i] = a]
  /\ writes' = [writes EXCEPT ![i] = Append(@, "whois")]
  /\ whoisTask' = [whoisTask EXCEPT ![i] = "release"]
  /\ lookups' = [lookups EXCEPT ![i].whois = @ + 1]
  /\ UNCHANGED << app, env, mainpc, next, results, wg, semaphore, candidates, wg2,
                  whoisSem, bulkTask, dnsTask, dnsOut, output >>

\* whois.Whois never answers
WhoisHang(i) ==
  /\ whoisTask[i] = "check"
  /\ "hang" \in whoisMay[domains[i]]
  /\ whoisOut' = [whoisOut EXCEPT ![i] = "hang"]
  /\ whoisTask' = [whoisTask EXCEPT ![i] = "hung"]
  /\ lookups' = [lookups EXCEPT ![i].whois = @ + 1]
  /\ UNCHANGED << app, env, mainpc, next, results, dnsResults, wg, semaphore,
                  candidates, wg2, whoisSem, bulkTask, dnsTask, dnsOut,
                  writes, output >>

\* the goroutine goes on without giving its permit back
WhoisReleaseLeak(i) ==
  /\ whoisTask[i] = "release"
  /\ whoisTask' = [whoisTask EXCEPT ![i] = "exit"]
  /\ UNCHANGED << app, env, lookups, mainpc, next, results, dnsResults, wg, semaphore,
                  candidates, wg2, whoisSem, bulkTask, dnsTask, dnsOut,
                  whoisOut, writes, output >>

\* <-whoisSem
WhoisRelease(i) ==
  /\ whoisTask[i] = "release"
  /\ whoisSem' = whoisSem - 1
  /\ whoisTask' = [whoisTask EXCEPT ![i] = "exit"]
  /\ UNCHANGED << app, env, lookups, mainpc, next, results, dnsResults, wg, semaphore,
                  candidates, wg2, bulkTask, dnsTask, dnsOut, whoisOut,
                  writes, output >>

\* defer wg2.Done()
WhoisDone(i) ==
  /\ whoisTask[i] = "exit"
  /\ wg2' = wg2 - 1
  /\ whoisTask' = [whoisTask EXCEPT ![i] = "done"]
  /\ UNCHANGED << app, env, lookups, mainpc, next, results, dnsResults, wg, semaphore,
                  candidates, whoisSem, bulkTask, dnsTask, dnsOut, whoisOut,
                  writes, output >>

\* the caller returns as soon as every goroutine is spawned
ReturnWithoutWait ==
  /\ op = "hybrid" /\ mainpc = "spawn2" /\ next > Len(candidates)
  /\ output' = dnsResults
  /\ mainpc' = "returned"
  /\ UNCHANGED << app, env, lookups, next, results, dnsResults, wg, semaphore, candidates,
                  wg2, whoisSem, bulkTask, dnsTask, whoisTask, dnsOut,
                  whoisOut, writes >>

\* wg2.Wait(); return dnsResults
Return ==
  /\ op = "hybrid" /\ mainpc = "spawn2" /\ next > Len(candidates)
  /\ wg2 = 0
  /\ output' = dnsResults
  /\ mainpc' = "returned"
  /\ UNCHANGED << app, env, lookups, next, results, dnsResults, wg, semaphore, candidates,
                  wg2, whoisSem, bulkTask, dnsTask, whoisTask, dnsOut,
                  whoisOut, writes >>

----------------------------------------------------------------------------
(* Specifications *)

Next ==
  \/ SingleCheck
  \/ SingleHang
  \/ BulkSpawn
  \/ \E i \in Idx : BulkAcquire(i)
  \/ \E i \in Idx : BulkCheck(i)
  \/ \E i \in Idx : BulkHang(i)
  \/ \E i \in Idx : BulkRelease(i)
  \/ \E i \in Idx : BulkDone(i)
  \/ BulkReturn
  \/ Spawn1
  \/ \E i \in Idx : DnsAcquire(i)
  \/ \E i \in Idx : DnsLookup(i)
  \/ \E i \in Idx : DnsRelease(i)
  \/ \E i \in Idx : DnsDone(i)
  \/ Select
  \/ Spawn2
  \/ \E i \in Idx : WhoisAcquire(i)
  \/ \E i \in Idx : WhoisCheck(i)
  \/ \E i \in Idx : WhoisHang(i)
  \/ \E i \in Idx : WhoisRelease(i)
  \/ \E i \in Idx : WhoisDone(i)
  \/ Return

Spec == Init /\ [][Next]_vars

\* every runnable goroutine is eventually scheduled
FairSpec == Spec /\ WF_vars(Next)

\* one invocation of CheckBulkHybrid under the same scheduler, for every
\* batch size (the names of a batch do not matter to its termination: every
\* name may get every answer)
InitHybrid ==
  /\ Init
  /\ op = "hybrid"
  /\ \A i \in Idx : domains[i] = "xy.io"

NextHybrid ==
  \/ Spawn1
  \/ \E i \in Idx : DnsAcquire(i)
  \/ \E i \in Idx : DnsLookup(i)
  \/ \E i \in Idx : DnsRelease(i)
  \/ \E i \in Idx : DnsDone(i)
  \/ Select
  \/ Spawn2
  \/ \E i \in Idx : WhoisAcquire(i)
  \/ \E i \in Idx : WhoisCheck(i)
  \/ \E i \in Idx : WhoisHang(i)
  \/ \E i \in Idx : WhoisRelease(i)
  \/ \E i \in Idx : WhoisDone(i)
  \/ Return

FairHybrid == InitHybrid /\ [][NextHybrid]_vars /\ WF_vars(NextHybrid)

----------------------------------------------------------------------------
(* The checkers on their own: one lookup outcome, one verdict *)

\* the batch runners at rest
oneCall == << env, mainpc, next, results, dnsResults, wg, semaphore,
              candidates, wg2, whoisSem, bulkTask, dnsTask, whoisTask,
              dnsOut, whoisOut, writes, lookups, output >>
pipeline == << oneCall, batch >>

PipelineIdle ==
  /\ batch = << >>
  /\ op = "none" /\ domains = << >>
  /\ dnsMay = [d \in Domains |-> {}] /\ whoisMay = [d \in Domains |-> {}]
  /\ mainpc = "idle" /\ next = 1
  /\ results = << >> /\ dnsResults = << >>
  /\ wg = 0 /\ semaphore = 0 /\ candidates = << >>
  /\ wg2 = 0 /\ whoisSem = 0
  /\ bulkTask = << >> /\ dnsTask = << >> /\ whoisTask = << >>
  /\ dnsOut = << >> /\ whoisOut = << >>
  /\ writes = << >> /\ lookups = << >> /\ output = << >>

\* lines a WHOIS server may put in a response
Fragments ==
  { "Registrar: Example", "nserver: ns1", "No match for", "NOT FOUND",
    "Premium", "purchase", "This name is reserved", "Contact us" }

MaxFrags == 3

\* the responses of up to n lines
RECURSIVE Responses(_)
Responses(n) ==
  IF n = 0 THEN {""}
  ELSE LET shorter == Responses(n - 1)
       IN  shorter \cup { IF t = "" THEN f ELSE t \o "\n" \o f :
                             t \in shorter, f \in Fragments }

WhoisProbes ==
  { [kind |-> "whois", domain |-> d, failed |-> f, whoisResult |-> t,
     answer |-> "none", elapsed |-> 0] :
      d \in Domains, f \in BOOLEAN, t \in Responses(MaxFrags) }

\* c.timeout, in seconds
timeout == 10

\* the seconds the resolver needs for its answer
Latencies == {0, timeout - 1, timeout, timeout + 1}

\* the answer is handed out as it is, however late
LookupHostUnbounded(answer, elapsed) == answer

\* c.resolver.LookupHost(ctx, domain) under context.WithTimeout(c.timeout):
\* an answer that has not arrived when the deadline expires is replaced by
\* a timeout error, a *net.DNSError that is not flagged not-found
LookupHost(answer, elapsed) ==
  IF elapsed >= timeout THEN "dnserror" ELSE answer

DnsProbes ==
  { [kind |-> "dns", domain |-> d, failed |-> FALSE, whoisResult |-> "",
     answer |-> a, elapsed |-> e] :
      d \in Domains, a \in DnsAnswers, e \in Latencies }

ClassifyInit ==
  /\ PipelineIdle
  /\ world = {}
  /\ HandlerIdle
  /\ DailyIdle
  /\ probe \in { p \in WhoisProbes : p.failed => p.whoisResult = "" }
                 \cup DnsProbes
  /\ verdict = NoVerdict

\* Check, applied to the outcome of the WHOIS lookup
CheckCall ==
  /\ probe.kind = "whois" /\ verdict = NoVerdict
  /\ verdict' = [verdict EXCEPT !.check =
                   CheckText(probe.domain, probe.failed, probe.whoisResult)]
  /\ UNCHANGED << pipeline, probe, world, handlerVars, dailyVars >>

\* the three DNS checkers, applied to the outcome of the DNS lookup
DnsCall ==
  /\ probe.kind = "dns" /\ verdict = NoVerdict
  /\ LET err == LookupHost(probe.answer, probe.elapsed)
     IN  verdict' = [verdict EXCEPT
                       !.dnsOnly = CheckDnsOnly(probe.domain, err),
                       !.fallback = checkDNSFallback(probe.domain, err),
                       !.checkDNS = checkDNS(probe.domain, err)]
  /\ UNCHANGED << pipeline, probe, world, handlerVars, dailyVars >>

ClassifyNext == CheckCall \/ DnsCall

ClassifySpec == ClassifyInit /\ [][ClassifyNext]_vars

----------------------------------------------------------------------------
(* The short-domain generator *)

PremiumTLDs ==
  << "com", "net", "org", "io", "dev", "app", "ai", "co",
     "me", "tv", "gg", "so", "to", "is", "sh", "ly",
     "de", "uk", "es", "fr", "it", "nl", "ch", "at" >>

chars == "abcdefghijklmnopqrstuvwxyz0123456789"

\* string(c) for the k-th character of chars
Char(k) == SubSeq(chars, k, k)

\* names = append(names, prefix + ...), in the order of the nested loops
Names(pre, remainingLen) ==
  LET n == Len(chars)
  IN  CASE remainingLen = 0 -> << pre >>
        [] remainingLen = 1 -> [k \in 1..n |-> pre \o Char(k)]
        [] remainingLen = 2 ->
             [k \in 1..(n * n) |->
                pre \o Char(((k - 1) \div n) + 1) \o Char(((k - 1) % n) + 1)]
        [] remainingLen = 3 ->
             [k \in 1..(n * n * n) |->
                pre \o Char(((k - 1) \div (n * n)) + 1)
                    \o Char((((k - 1) \div n) % n) + 1)
                    \o Char(((k - 1) % n) + 1)]

\* the last suffix of PremiumTLDs is left out
GenerateWithoutLastTLD(len, pre) ==
  IF len < 1 \/ len > 3 THEN << >>
  ELSE IF len - Len(pre) < 0 THEN << >>
  ELSE LET names == Names(pre, len - Len(pre))
           t == Len(PremiumTLDs) - 1
       IN  [k \in 1..(Len(names) * t) |->
              names[((k - 1) \div t) + 1] \o "." \o
              PremiumTLDs[((k - 1) % t) + 1]]

\* a nil slice is the empty sequence
GenerateShortDomainsMultiTLD(len, pre) ==
  IF len < 1 \/ len > 3 THEN << >>
  ELSE IF len - Len(pre) < 0 THEN << >>
  ELSE LET names == Names(pre, len - Len(pre))
           t == Len(PremiumTLDs)
       IN  [k \in 1..(Len(names) * t) |->
              names[((k - 1) \div t) + 1] \o "." \o
              PremiumTLDs[((k - 1) % t) + 1]]

----------------------------------------------------------------------------
(* The HTTP handlers *)

\* unicode.IsSpace, for the characters a form value of the model can hold
IsSpace(c) == c \in {" ", "\t", "\n", "\r"}

RECURSIVE TrimLeft(_)
TrimLeft(s) ==
  IF Len(s) > 0 /\ IsSpace(SubSeq(s, 1, 1))
  THEN TrimLeft(SubSeq(s, 2, Len(s)))
  ELSE s

RECURSIVE TrimRight(_)
TrimRight(s) ==
  IF Len(s) > 0 /\ IsSpace(SubSeq(s, Len(s), Len(s)))
  THEN TrimRight(SubSeq(s, 1, Len(s) - 1))
  ELSE s

TrimSpace(s) == TrimRight(TrimLeft(s))

Digits == "0123456789"
IsDigit(c) == \E d \in 0..9 : SubSeq(Digits, d + 1, d + 1) = c
DigitValue(c) == CHOOSE d \in 0..9 : SubSeq(Digits, d + 1, d + 1) = c

\* the digit loop of strconv.Atoi from position i on, n being the value so far
RECURSIVE AtoiFrom(_, _, _)
AtoiFrom(s, i, n) ==
  IF i > Len(s) THEN [err |-> FALSE, n |-> n]
  ELSE IF ~IsDigit(SubSeq(s, i, i)) THEN [err |-> TRUE, n |-> 0]
  ELSE AtoiFrom(s, i + 1, n * 10 + DigitValue(SubSeq(s, i, i)))

\* strconv.Atoi: an optional sign, then one or more decimal digits
Atoi(s) ==
  LET signed == Len(s) > 0 /\ SubSeq(s, 1, 1) \in {"+", "-"}
      first == IF signed THEN 2 ELSE 1
      r == AtoiFrom(s, first, 0)
  IN  IF first > Len(s) THEN [err |-> TRUE, n |-> 0]
      ELSE IF r.err THEN r
      ELSE IF signed /\ SubSeq(s, 1, 1) = "-" THEN [err |-> FALSE, n |-> 0 - r.n]
      ELSE r

\* what CheckBulkHybrid returns for a list of names when nothing goes wrong on
\* the network: one result per name, in order, Available for the names of w
HybridOutcome(ds, w) ==
  [i \in 1..Len(ds) |->
     [Domain |-> ds[i],
      Status |-> IF ds[i] \in w THEN StatusAvailable ELSE StatusTaken]]

IsAvailable(r) == r.Status = StatusAvailable

\* names that may be unregistered
Pool == {"a.io", "ab.ai", "zz.com", "qq.io"}

Methods == {"GET", "POST"}
LengthInputs ==
  {"", "0", "1", "2", "3", "4", "-1", "+2", "02", "2x", "abc", " 2", "10"}
PrefixInputs == {"", "a", " A ", "ab", "abcd"}

Requests ==
  [method : Methods, length : LengthInputs, prefix : PrefixInputs]

Respond(code, page, available, checked) ==
  [code |-> code, page |-> page, available |-> available,
   total |-> Len(available), checked |-> checked]

HandlerInit ==
  /\ PipelineIdle
  /\ ClassifyIdle
  /\ DailyIdle
  /\ world \in SUBSET Pool
  /\ request \in Requests
  /\ hpc = "start"
  /\ length = 0 /\ prefix = ""
  /\ generated = << >> /\ calls = NoCalls
  /\ allResults = << >> /\ response = NoResponse

\* any parsed number is taken as the length
ScanShortAnyNumber ==
  /\ hpc = "start"
  /\ IF request.method # "POST"
     THEN /\ response' = Respond(405, "error", << >>, 0)
          /\ hpc' = "done"
          /\ UNCHANGED << length, prefix >>
     ELSE LET a == Atoi(request.length)
          IN  /\ prefix' = ToLower(TrimSpace(request.prefix))
              /\ length' = a.n
              /\ IF a.err
                 THEN /\ response' = Respond(400, "error", << >>, 0)
                      /\ hpc' = "done"
                 ELSE /\ hpc' = "prefix"
                      /\ UNCHANGED response
  /\ UNCHANGED << pipeline, classifyVars, dailyVars, world, request, generated, calls,
                  allResults >>

\* the method check and the parsing of the form values
ScanShortValidate ==
  /\ hpc = "start"
  /\ IF request.method # "POST"
     THEN /\ response' = Respond(405, "error", << >>, 0)
          /\ hpc' = "done"
          /\ UNCHANGED << length, prefix >>
     ELSE LET a == Atoi(request.length)
          IN  /\ prefix' = ToLower(TrimSpace(request.prefix))
              /\ length' = a.n
              /\ IF a.err \/ a.n < 1 \/ a.n > 3
                 THEN /\ response' = Respond(400, "error", << >>, 0)
                      /\ hpc' = "done"
                 ELSE /\ hpc' = "prefix"
                      /\ UNCHANGED response
  /\ UNCHANGED << pipeline, classifyVars, dailyVars, world, request, generated, calls,
                  allResults >>

\* minPrefixLen := length - 1
ScanShortPrefix ==
  /\ hpc = "prefix"
  /\ IF Len(prefix) < length - 1
     THEN /\ response' = Respond(200, "scan-empty", << >>, 0)
          /\ hpc' = "done"
     ELSE /\ hpc' = "generate"
          /\ UNCHANGED response
  /\ UNCHANGED << pipeline, classifyVars, dailyVars, world, request, length, prefix,
                  generated, calls, allResults >>

\* domains := checker.GenerateShortDomainsMultiTLD(length, prefix)
ScanShortGenerate ==
  /\ hpc = "generate"
  /\ generated' = GenerateShortDomainsMultiTLD(length, prefix)
  /\ calls' = [calls EXCEPT !.generate = @ + 1]
  /\ IF Len(generated') = 0
     THEN /\ response' = Respond(200, "scan-empty", << >>, 0)
          /\ hpc' = "done"
     ELSE /\ hpc' = "check"
          /\ UNCHANGED response
  /\ UNCHANGED << pipeline, classifyVars, dailyVars, world, request, length, prefix,
                  allResults >>

\* allResults := domainChecker.CheckBulkHybrid(domains)
ScanShortCheck ==
  /\ hpc = "check"
  /\ allResults' = HybridOutcome(generated, world)
  /\ calls' = [calls EXCEPT !.hybrid = @ + 1]
  /\ hpc' = "render"
  /\ UNCHANGED << pipeline, classifyVars, dailyVars, world, request, length, prefix,
                  generated, response >>

\* the filter loop and the scan-results page
ScanShortRender ==
  /\ hpc = "render"
  /\ response' = Respond(200, "scan-results",
                         SelectSeq(allResults, IsAvailable), Len(generated))
  /\ hpc' = "done"
  /\ UNCHANGED << pipeline, classifyVars, dailyVars, world, request, length, prefix,
                  generated, calls, allResults >>

HandlerNext ==
  \/ ScanShortValidate
  \/ ScanShortPrefix
  \/ ScanShortGenerate
  \/ ScanShortCheck
  \/ ScanShortRender

HandlerSpec == HandlerInit /\ [][HandlerNext]_vars

----------------------------------------------------------------------------
(* The daily scan *)

prefixes2 == << "a", "b", "c", "x", "z", "0", "1" >>

\* the Available results of a batch, as a set
AvailableIn(rs) == {rs[k] : k \in {n \in 1..Len(rs) : IsAvailable(rs[n])}}

DailyInit ==
  /\ PipelineIdle
  /\ ClassifyIdle
  /\ HandlerIdle
  /\ world \in SUBSET Pool
  /\ variant \in {"prefixes", "full"}
  /\ envSet \in BOOLEAN
  /\ dpc = "start" /\ batchNo = 0
  /\ allAvailable = << >> /\ found = {} /\ emailed = << >>
  /\ exitCode = -1

\* the check of the two environment variables
DailyStart ==
  /\ dpc = "start"
  /\ IF envSet
     THEN dpc' = "scan1" /\ UNCHANGED exitCode
     ELSE dpc' = "exited" /\ exitCode' = 1
  /\ UNCHANGED << pipeline, classifyVars, handlerVars, world, variant, envSet,
                  batchNo, allAvailable, found, emailed >>

\* the batch of the 1-character names
DailyScan1 ==
  /\ dpc = "scan1"
  /\ LET domains1 == GenerateShortDomainsMultiTLD(1, "")
         results1 == HybridOutcome(domains1, world)
     IN  /\ allAvailable' = allAvailable \o SelectSeq(results1, IsAvailable)
         /\ found' = found \cup AvailableIn(results1)
  /\ dpc' = "scan2" /\ batchNo' = 1
  /\ UNCHANGED << pipeline, classifyVars, handlerVars, world, variant, envSet,
                  emailed, exitCode >>

\* one batch of 2-character names for the next prefix of prefixes2
DailyScan2Prefix ==
  /\ dpc = "scan2" /\ variant = "prefixes"
  /\ LET domains2 == GenerateShortDomainsMultiTLD(2, prefixes2[batchNo])
         results2 == HybridOutcome(domains2, world)
     IN  /\ allAvailable' = allAvailable \o SelectSeq(results2, IsAvailable)
         /\ found' = found \cup AvailableIn(results2)
  /\ IF batchNo = Len(prefixes2)
     THEN dpc' = "mail" /\ UNCHANGED batchNo
     ELSE batchNo' = batchNo + 1 /\ UNCHANGED dpc
  /\ UNCHANGED << pipeline, classifyVars, handlerVars, world, variant, envSet,
                  emailed, exitCode >>

\* one batch of all 2-character names
DailyScan2Full ==
  /\ dpc = "scan2" /\ variant = "full"
  /\ LET domains2 == GenerateShortDomainsMultiTLD(2, "")
         results2 == HybridOutcome(domains2, world)
     IN  /\ allAvailable' = allAvailable \o SelectSeq(results2, IsAvailable)
         /\ found' = found \cup AvailableIn(results2)
  /\ dpc' = "mail"
  /\ UNCHANGED << pipeline, classifyVars, handlerVars, world, variant, envSet,
                  batchNo, emailed, exitCode >>

\* the report is sent whatever was found
DailyMailAlways ==
  /\ dpc = "mail"
  /\ emailed' = Append(emailed, allAvailable)
  /\ \E err \in BOOLEAN : exitCode' = IF err THEN 1 ELSE 0
  /\ dpc' = "exited"
  /\ UNCHANGED << pipeline, classifyVars, handlerVars, world, variant, envSet,
                  batchNo, allAvailable, found >>

\* if len(allAvailable) > 0 { sendEmail(...) }: sendEmail may return an error
DailyMail ==
  /\ dpc = "mail"
  /\ IF Len(allAvailable) > 0
     THEN /\ emailed' = Append(emailed, allAvailable)
          /\ \E err \in BOOLEAN : exitCode' = IF err THEN 1 ELSE 0
     ELSE /\ exitCode' = 0
          /\ UNCHANGED emailed
  /\ dpc' = "exited"
  /\ UNCHANGED << pipeline, classifyVars, handlerVars, world, variant, envSet,
                  batchNo, allAvailable, found >>

DailyNext ==
  \/ DailyStart
  \/ DailyScan1
  \/ DailyScan2Prefix
  \/ DailyScan2Full
  \/ DailyMail

DailySpec == DailyInit /\ [][DailyNext]_vars

----------------------------------------------------------------------------
(* Two invocations of CheckBulkHybrid on the same Checker *)

\* the locals of one invocation
Invocation(ds, dm, wm) ==
  [domains |-> ds, dnsMay |-> dm, whoisMay |-> wm,
   mainpc |-> "spawn1", next |-> 1,
   dnsResults |-> MakeResults(ds),
   wg |-> 0, semaphore |-> 0, candidates |-> << >>,
   wg2 |-> 0, whoisSem |-> 0,
   dnsTask |-> [i \in 1..Len(ds) |-> "idle"],
   whoisTask |-> [i \in 1..Len(ds) |-> "idle"],
   dnsOut |-> [i \in 1..Len(ds) |-> "none"],
   whoisOut |-> [i \in 1..Len(ds) |-> "none"],
   output |-> << >>]

Batches == DOMAIN batch
BIdx(b) == 1..Len(batch[b].domains)

\* everything but the invocations
rest == << oneCall, classifyVars, world, handlerVars, dailyVars >>

RestIdle ==
  /\ op = "none" /\ domains = << >>
  /\ dnsMay = [d \in Domains |-> {}] /\ whoisMay = [d \in Domains |-> {}]
  /\ mainpc = "idle" /\ next = 1
  /\ results = << >> /\ dnsResults = << >>
  /\ wg = 0 /\ semaphore = 0 /\ candidates = << >>
  /\ wg2 = 0 /\ whoisSem = 0
  /\ bulkTask = << >> /\ dnsTask = << >> /\ whoisTask = << >>
  /\ dnsOut = << >> /\ whoisOut = << >>
  /\ writes = << >> /\ lookups = << >> /\ output = << >>
  /\ ClassifyIdle /\ world = {} /\ HandlerIdle /\ DailyIdle

\* the invocation b continues with the locals r
Continue(b, r) ==
  /\ batch' = [batch EXCEPT ![b] = r]
  /\ UNCHANGED rest

\* the shortest request that fills the WHOIS semaphore and keeps a name
\* waiting
ParWide == WhoisCap + 1

\* a request with more names than the WHOIS semaphore admits, all of them
\* unregistered, served while a one-name request is
ParInitWide ==
  batch = << Invocation([i \in 1..ParWide |-> "xy.io"],
                        {"notfound"}, {"nomatch"}),
             Invocation(<< "ab.io" >>, {"notfound"}, {"nomatch"}) >>

\* two short requests, any answer from the network
ParInitSmall ==
  \E ds1 \in [1..1 -> Domains], ds2 \in [1..1 -> Domains] :
    batch = << Invocation(ds1, DnsAnswers, WhoisAnswers),
               Invocation(ds2, DnsAnswers, WhoisAnswers) >>

ParInit ==
  /\ RestIdle
  /\ (ParInitWide \/ ParInitSmall)

ParSpawn1(b) ==
  LET s == batch[b]
  IN  /\ s.mainpc = "spawn1" /\ s.next <= Len(s.domains)
      /\ Continue(b, [s EXCEPT !.wg = @ + 1,
                               !.dnsTask[s.next] = "acquire",
                               !.next = @ + 1])

ParDnsAcquire(b, i) ==
  LET s == batch[b]
  IN  /\ s.dnsTask[i] = "acquire"
      /\ s.semaphore < DnsCap
      /\ Continue(b, [s EXCEPT !.semaphore = @ + 1,
                               !.dnsTask[i] = "lookup"])

\* the goroutine stores its result in the array of the first invocation
ParDnsLookupSharedArray(b, i) ==
  LET s == batch[b]
  IN  /\ s.dnsTask[i] = "lookup"
      /\ \E a \in s.dnsMay :
           batch' = [batch EXCEPT
                       ![1].dnsResults[1] = checkDNS(s.domains[i], a),
                       ![b].dnsOut[i] = a,
                       ![b].dnsTask[i] = "release"]
      /\ UNCHANGED rest

ParDnsLookup(b, i) ==
  LET s == batch[b]
  IN  /\ s.dnsTask[i] = "lookup"
      /\ \E a \in s.dnsMay :
           Continue(b, [s EXCEPT !.dnsResults[i] = checkDNS(s.domains[i], a),
                                 !.dnsOut[i] = a,
                                 !.dnsTask[i] = "release"])

ParDnsRelease(b, i) ==
  LET s == batch[b]
  IN  /\ s.dnsTask[i] = "release"
      /\ Continue(b, [s EXCEPT !.semaphore = @ - 1,
                               !.dnsTask[i] = "exit"])

ParDnsDone(b, i) ==
  LET s == batch[b]
  IN  /\ s.dnsTask[i] = "exit"
      /\ Continue(b, [s EXCEPT !.wg = @ - 1, !.dnsTask[i] = "done"])

ParSelect(b) ==
  LET s == batch[b]
  IN  /\ s.mainpc = "spawn1" /\ s.next > Len(s.domains)
      /\ s.wg = 0
      /\ Continue(b, [s EXCEPT
                        !.candidates = Collect(s.dnsResults, Len(s.domains)),
                        !.next = 1,
                        !.mainpc = "spawn2"])

ParSpawn2(b) ==
  LET s == batch[b]
  IN  /\ s.mainpc = "spawn2" /\ s.next <= Len(s.candidates)
      /\ Continue(b, [s EXCEPT !.wg2 = @ + 1,
                               !.whoisTask[s.candidates[s.next]] = "acquire",
                               !.next = @ + 1])

ParWhoisAcquire(b, i) ==
  LET s == batch[b]
  IN  /\ s.whoisTask[i] = "acquire"
      /\ s.whoisSem < WhoisCap
      /\ Continue(b, [s EXCEPT !.whoisSem = @ + 1,
                               !.whoisTask[i] = "check"])

ParWhoisCheck(b, i) ==
  LET s == batch[b]
  IN  /\ s.whoisTask[i] = "check"
      /\ \E a \in s.whoisMay :
           Continue(b, [s EXCEPT !.dnsResults[i] = Check(s.domains[i], a),
                                 !.whoisOut[i] = a,
                                 !.whoisTask[i] = "release"])

ParWhoisRelease(b, i) ==
  LET s == batch[b]
  IN  /\ s.whoisTask[i] = "release"
      /\ Continue(b, [s EXCEPT !.whoisSem = @ - 1,
                               !.whoisTask[i] = "exit"])

ParWhoisDone(b, i) ==
  LET s == batch[b]
  IN  /\ s.whoisTask[i] = "exit"
      /\ Continue(b, [s EXCEPT !.wg2 = @ - 1, !.whoisTask[i] = "done"])

ParReturn(b) ==
  LET s == batch[b]
  IN  /\ s.mainpc = "spawn2" /\ s.next > Len(s.candidates)
      /\ s.wg2 = 0
      /\ Continue(b, [s EXCEPT !.output = s.dnsResults,
                               !.mainpc = "returned"])

ParNext ==
  \/ \E b \in Batches : ParSpawn1(b)
  \/ \E b \in Batches : \E i \in BIdx(b) : ParDnsAcquire(b, i)
  \/ \E b \in Batches : \E i \in BIdx(b) : ParDnsLookup(b, i)
  \/ \E b \in Batches : \E i \in BIdx(b) : ParDnsRelease(b, i)
  \/ \E b \in Batches : \E i \in BIdx(b) : ParDnsDone(b, i)
  \/ \E b \in Batches : ParSelect(b)
  \/ \E b \in Batches : ParSpawn2(b)
  \/ \E b \in Batches : \E i \in BIdx(b) : ParWhoisAcquire(b, i)
  \/ \E b \in Batches : \E i \in BIdx(b) : ParWhoisCheck(b, i)
  \/ \E b \in Batches : \E i \in BIdx(b) : ParWhoisRelease(b, i)
  \/ \E b \in Batches : \E i \in BIdx(b) : ParWhoisDone(b, i)
  \/ \E b \in Batches : ParReturn(b)

ParSpec == ParInit /\ [][ParNext]_vars

----------------------------------------------------------------------------
(* The generator called directly, and through ScanShort *)

\* the arguments of a direct call
GenLengths == {-1, 0, 1, 2, 3, 4}
GenPrefixes == {"", "a", "z9", "abc", "abcd"}

GenInit ==
  /\ PipelineIdle
  /\ ClassifyIdle
  /\ DailyIdle
  /\ world = {}
  /\ request = NoRequest
  /\ hpc = "call"
  /\ length \in GenLengths /\ prefix \in GenPrefixes
  /\ generated = << >> /\ calls = NoCalls
  /\ allResults = << >> /\ response = NoResponse

\* checker.GenerateShortDomainsMultiTLD(length, prefix)
GenerateCall ==
  /\ hpc = "call"
  /\ generated' = GenerateShortDomainsMultiTLD(length, prefix)
  /\ calls' = [calls EXCEPT !.generate = @ + 1]
  /\ hpc' = "called"
  /\ UNCHANGED << pipeline, classifyVars, dailyVars, world, request, length,
                  prefix, allResults, response >>

GenNext == GenerateCall \/ HandlerNext

GenSpec == (GenInit \/ HandlerInit) /\ [][GenNext]_vars

-----------------------------------------------------------------------------
(* The CheckBulk handler: a form of names, one per line *)

\* more lines than this are read but not checked
MaxBulkDomains == 50

\* the position of the first sep in s from position i on, 0 when there is none
RECURSIVE IndexFrom(_, _, _)
IndexFrom(s, sep, i) ==
  IF i + Len(sep) - 1 > Len(s) THEN 0
  ELSE IF SubSeq(s, i, i + Len(sep) - 1) = sep THEN i
  ELSE IndexFrom(s, sep, i + 1)

\* strings.Split for a separator that is not empty: the pieces between the
\* separators, one more than there are separators
RECURSIVE Split(_, _)
Split(s, sep) ==
  LET i == IndexFrom(s, sep, 1)
  IN  IF i = 0 THEN << s >>
      ELSE << SubSeq(s, 1, i - 1) >> \o
           Split(SubSeq(s, i + Len(sep), Len(s)), sep)

\* the loop over the lines: trimmed, the empty ones dropped, ".com" appended
\* to those without a dot
RECURSIVE FormDomains(_)
FormDomains(lines) ==
  IF lines = << >> THEN << >>
  ELSE LET d == TrimSpace(Head(lines))
       IN  (IF d # ""
            THEN << IF ~Contains(d, ".") THEN d \o ".com" ELSE d >>
            ELSE << >>) \o FormDomains(Tail(lines))

\* domains = domains[:50]
Limit(ds) ==
  IF Len(ds) > MaxBulkDomains THEN SubSeq(ds, 1, MaxBulkDomains) ELSE ds

\* what CheckBulk returns for a list of names when nothing goes wrong on the
\* network: one result per name, in order, Available for the names of w
BulkOutcome(ds, w) ==
  [i \in 1..Len(ds) |->
     [Domain |-> ds[i],
      Status |-> IF ds[i] \in w THEN StatusAvailable ELSE StatusTaken]]

\* the longest form that is posted
MaxLines == 60

\* the k-th line of a form: a name of its own, bare or with a suffix, with or
\* without white space around it, or a line without a name
Shapes == {"bare", "mixed", "blank"}
Line(shape, k) ==
  LET name == "n" \o ToString(k)
  IN  CASE shape = "bare" -> name
        [] shape = "blank" -> IF k % 2 = 0 THEN "" ELSE " \t\r"
        [] OTHER ->
             CASE k % 8 = 0 -> "  "
               [] k % 8 \in {1, 5} -> name
               [] k % 8 \in {2, 6} -> " " \o name \o ".io "
               [] k % 8 \in {3, 7} -> "\t" \o name \o ".ai\r"
               [] OTHER -> name \o ".co.uk  "

\* the lines 1..n as the browser posts them
RECURSIVE Form(_, _)
Form(shape, n) ==
  IF n = 0 THEN ""
  ELSE IF n = 1 THEN Line(shape, 1)
  ELSE Form(shape, n - 1) \o "\n" \o Line(shape, n)

BulkForms == {Form(shape, n) : shape \in Shapes, n \in 0..MaxLines}
BulkRequests == [method : Methods, domains : BulkForms]

\* names that may be unregistered
BulkPool == {"n1.com", "n2.io"}

BulkFormInit ==
  /\ PipelineIdle
  /\ ClassifyIdle
  /\ DailyIdle
  /\ world \in SUBSET BulkPool
  /\ request \in BulkRequests
  /\ hpc = "bulk"
  /\ length = 0 /\ prefix = ""
  /\ generated = << >> /\ calls = NoCalls
  /\ allResults = << >> /\ response = NoResponse

\* every name of the form goes to the checker
CheckBulkFormUnlimited ==
  /\ hpc = "bulk"
  /\ IF request.method # "POST"
     THEN /\ response' = Respond(405, "error", << >>, 0)
          /\ hpc' = "done"
          /\ UNCHANGED generated
     ELSE LET lines == Split(request.domains, "\n")
              ds == FormDomains(lines)
          IN  IF Len(ds) = 0
              THEN /\ response' = Respond(400, "error", << >>, 0)
                   /\ hpc' = "done"
                   /\ UNCHANGED generated
              ELSE /\ generated' = ds
                   /\ hpc' = "bulk-check"
                   /\ UNCHANGED response
  /\ UNCHANGED << pipeline, classifyVars, dailyVars, world, request, length,
                  prefix, calls, allResults >>

\* the method check, the reading of the form and the limit; the handler's
\* slice domains is kept in generated
CheckBulkForm ==
  /\ hpc = "bulk"
  /\ IF request.method # "POST"
     THEN /\ response' = Respond(405, "error", << >>, 0)
          /\ hpc' = "done"
          /\ UNCHANGED generated
     ELSE LET lines == Split(request.domains, "\n")
              ds == FormDomains(lines)
          IN  IF Len(ds) = 0
              THEN /\ response' = Respond(400, "error", << >>, 0)
                   /\ hpc' = "done"
                   /\ UNCHANGED generated
              ELSE /\ generated' = Limit(ds)
                   /\ hpc' = "bulk-check"
                   /\ UNCHANGED response
  /\ UNCHANGED << pipeline, classifyVars, dailyVars, world, request, length,
                  prefix, calls, allResults >>

\* results := domainChecker.CheckBulk(domains)
CheckBulkCall ==
  /\ hpc = "bulk-check"
  /\ allResults' = BulkOutcome(generated, world)
  /\ calls' = [calls EXCEPT !.bulk = @ + 1]
  /\ hpc' = "bulk-render"
  /\ UNCHANGED << pipeline, classifyVars, dailyVars, world, request, length,
                  prefix, generated, response >>

\* the results-bulk page is given every result
CheckBulkRender ==
  /\ hpc = "bulk-render"
  /\ response' = Respond(200, "results-bulk", allResults, Len(allResults))
  /\ hpc' = "done"
  /\ UNCHANGED << pipeline, classifyVars, dailyVars, world, request, length,
                  prefix, generated, calls, allResults >>

BulkFormNext ==
  \/ CheckBulkForm
  \/ CheckBulkCall
  \/ CheckBulkRender

BulkFormSpec == BulkFormInit /\ [][BulkFormNext]_vars

----------------------------------------------------------------------------
(* Properties *)

Returned == mainpc = "returned"
HybridReturned == op = "hybrid" /\ mainpc = "returned"

\* the WHOIS lookups of Phase 2 that are executing
WhoisInFlight == {i \in Idx : whoisTask[i] \in {"check", "hung"}}

\* some WHOIS lookup never answers
SomeHung ==
  \/ mainpc = "hung"
  \/ \E i \in Idx : whoisTask[i] = "hung" \/ bulkTask[i] = "hung"

\* the lower-cased body of the WHOIS answer index i received
LowerBody(i) == WhoisLower[domains[i], whoisOut[i]]

\* C1: CheckBulkHybrid returns a list as long as its input whose i-th result
\* carries the i-th input domain, whatever the order in which the goroutines
\* complete (duplicated domains and the empty list included).
C1_OrderAndLength ==
  HybridReturned =>
    /\ Len(output) = Len(domains)
    /\ \A i \in Idx : output[i].Domain = domains[i]

C1_Witness ==
  /\ HybridReturned
  /\ N = 2 /\ domains[1] = domains[2]
  /\ output[1].Status # output[2].Status

\* C2: a domain whose Phase 1 probe resolves is never WHOIS-checked and its
\* final verdict is Taken.
C2_ResolvedIsTaken ==
  op = "hybrid" =>
    \A i \in Idx :
      dnsOut[i] = "resolves" =>
        /\ whoisTask[i] = "idle"
        /\ whoisOut[i] = "none"
        /\ dnsResults[i].Status = StatusTaken
        /\ Returned => output[i].Status = StatusTaken

C2_Witness ==
  /\ HybridReturned
  /\ \E i, j \in Idx :
       /\ dnsOut[i] = "resolves"
       /\ domains[j] = domains[i] /\ whoisOut[j] = "nomatch"
       /\ output[j].Status = StatusAvailable

\* C3: at most 5 WHOIS lookups of Phase 2 execute at the same time, for any
\* number of candidates.
C3_WhoisBound ==
  op = "hybrid" => Cardinality(WhoisInFlight) <= 5

C3_Witness ==
  /\ op = "hybrid"
  /\ Len(candidates) > 5
  /\ Cardinality(WhoisInFlight) = 5
  /\ \E i \in Idx : whoisTask[i] = "acquire"

\* C4: CheckBulkHybrid reports Available only for a domain whose DNS probe
\* answered a definitive not-found and whose WHOIS lookup succeeded with a
\* body that contains an availability indicator and neither a registration
\* nor a premium/reserved indicator; a DNS transport error, a WHOIS transport
\* error or an unmatched WHOIS body yields Taken.
C4_AvailableOnlyIfConfirmed ==
  HybridReturned =>
    \A i \in Idx :
      /\ output[i].Status = StatusAvailable =>
           /\ dnsOut[i] = "notfound"
           /\ whoisOut[i] \in WhoisBodies
           /\ MatchesAny(LowerBody(i), availablePatterns)
           /\ ~MatchesAny(LowerBody(i), takenPatterns)
           /\ ~PremiumOrReserved(LowerBody(i))
      /\ dnsOut[i] \in {"dnserror", "othererror"} =>
           output[i].Status = StatusTaken
      /\ whoisOut[i] = "fail" => output[i].Status = StatusTaken
      /\ (/\ whoisOut[i] \in WhoisBodies
          /\ ~MatchesAny(LowerBody(i), availablePatterns)) =>
           output[i].Status = StatusTaken

C4_Witness ==
  /\ HybridReturned
  /\ \E i, j \in Idx :
       /\ output[i].Status = StatusAvailable
       /\ dnsOut[j] = "dnserror" /\ output[j].Status = StatusTaken

\* C5: when CheckBulkHybrid returns, every goroutine it spawned has finished:
\* every DNS probe and every Phase 2 check has written its result, released
\* its permit and signalled its wait group; no slot is left unwritten.
C5_AllDoneAtReturn ==
  HybridReturned =>
    /\ wg = 0 /\ wg2 = 0 /\ semaphore = 0 /\ whoisSem = 0
    /\ \A i \in Idx :
         /\ dnsTask[i] = "done"
         /\ whoisTask[i] \in {"idle", "done"}
         /\ writes[i] # << >>
         /\ output[i] # ZeroResult
         /\ output[i] = dnsResults[i]
    /\ \A k \in 1..Len(candidates) : whoisTask[candidates[k]] = "done"

C5_Witness ==
  /\ HybridReturned
  /\ N = 2
  /\ Len(candidates) = 1

C7_NeverStalls ==
  (op \in {"bulk", "hybrid"}) => <>Returned

\* C8 (as claimed): in one invocation of CheckBulkHybrid every slot of the
\* result array is written exactly once.
C8_WrittenOnce ==
  HybridReturned => \A i \in Idx : Len(writes[i]) = 1

\* C8 (amended): every slot is written exactly once by the Phase 1 goroutine
\* of its index; the slot of a candidate is written exactly once more, by the
\* Phase 2 goroutine of its index, after Phase 1 has ended; no other write
\* happens.
C8_WrittenOncePerPhase ==
  op = "hybrid" =>
    \A i \in Idx :
      /\ writes[i] \in { << >>, << "dns" >>, << "dns", "whois" >> }
      /\ Len(writes[i]) = 2 => (mainpc \in {"spawn2", "returned"} /\ dnsOut[i] = "notfound")
      /\ Returned =>
           writes[i] = IF dnsOut[i] = "notfound"
                       THEN << "dns", "whois" >> ELSE << "dns" >>

C8_Witness ==
  /\ HybridReturned
  /\ \E i, j \in Idx :
       writes[i] = << "dns" >> /\ writes[j] = << "dns", "whois" >>

\* C9: every result returned by Check, CheckBulk and CheckBulkHybrid has the
\* status Available or Taken.
C9_TerminalStatus ==
  Returned =>
    \A i \in 1..Len(output) :
      output[i].Status \in {StatusAvailable, StatusTaken}

C9_Witness ==
  /\ Returned
  /\ op = "hybrid"
  /\ \E i, j \in Idx :
       /\ dnsOut[i] = "othererror"
       /\ whoisOut[j] = "unclear"

\* C10: when the WHOIS lookup fails, Check returns Taken, never Available,
\* and no DNS probe is made for it.
C10_WhoisFailureIsTaken ==
  /\ (op = "single" /\ Returned /\ whoisOut[1] = "fail") =>
        (output[1].Status = StatusTaken /\ dnsOut[1] = "none")
  /\ op = "bulk" =>
        \A i \in Idx :
          whoisOut[i] = "fail" =>
            (results[i].Status = StatusTaken /\ dnsOut[i] = "none")
  /\ op = "hybrid" =>
        \A i \in Idx :
          whoisOut[i] = "fail" => dnsResults[i].Status = StatusTaken

C10_Witness ==
  /\ op = "single" /\ Returned
  /\ whoisOut[1] = "fail"
  /\ output[1] = [Domain |-> domains[1], Status |-> StatusTaken]


\* the checker has answered the probe
Checked == probe.kind = "whois" /\ verdict # NoVerdict

\* the response text names pattern p, as sent or in any letter case
Mentions(text, p) == Contains(text, p) \/ Contains(ToLower(text), p)

\* C11: a WHOIS response that contains a registration indicator (an entry of
\* takenPatterns) is classified Taken by Check, also when the same response
\* contains an availability indicator or a premium/reserved indicator.
C11_RegistrationWins ==
  (Checked /\ ~probe.failed
     /\ \E k \in 1..Len(takenPatterns) :
          Mentions(probe.whoisResult, takenPatterns[k]))
    => verdict.check = [Domain |-> probe.domain, Status |-> StatusTaken]

\* a registered response that also says "NOT FOUND" and "Premium" was checked
C11_Witness ==
  /\ Checked /\ ~probe.failed
  /\ Contains(probe.whoisResult, "NOT FOUND")
  /\ Contains(probe.whoisResult, "Premium")
  /\ Contains(probe.whoisResult, "nserver:")
  /\ verdict.check.Status = StatusTaken

\* C12: a WHOIS response that contains "premium" or "platinum" together with
\* "purchase", "contact", "offer" or "reserved", or that contains "this name
\* is reserved", is classified Taken by Check, also when it contains an
\* availability indicator such as "not found".
C12_PremiumIsTaken ==
  (Checked /\ ~probe.failed
     /\ \/ /\ \E w \in {"premium", "platinum"} :
                 Mentions(probe.whoisResult, w)
            /\ \E x \in {"purchase", "contact", "offer", "reserved"} :
                 Mentions(probe.whoisResult, x)
        \/ Mentions(probe.whoisResult, "this name is reserved"))
    => verdict.check = [Domain |-> probe.domain, Status |-> StatusTaken]

\* a premium offer without any registration line, answered "NOT FOUND", was
\* checked
C12_Witness ==
  /\ Checked /\ ~probe.failed
  /\ Contains(probe.whoisResult, "NOT FOUND")
  /\ Contains(probe.whoisResult, "Premium")
  /\ Contains(probe.whoisResult, "purchase")
  /\ ~MatchesAny(ToLower(probe.whoisResult), takenPatterns)
  /\ verdict.check.Status = StatusTaken
\* the scenario of C13: ab.io resolves, xy.io is not found in DNS and the
\* WHOIS server answers "No match for xy.io"
C13_Scenario ==
  /\ HybridReturned
  /\ domains = << "ab.io", "xy.io" >>
  /\ dnsOut = << "resolves", "notfound" >>
  /\ whoisOut[2] = "nomatch"
  /\ WhoisBody(whoisOut[2], domains[2]) = "No match for xy.io"

\* C13: for the input ["ab.io", "xy.io"] where ab.io resolves, xy.io gets a
\* DNS not-found and WHOIS answers "No match for xy.io", CheckBulkHybrid
\* returns exactly [{ab.io, taken}, {xy.io, available}], in that order,
\* under every interleaving.
C13_ConcreteScenario ==
  C13_Scenario =>
    output = << [Domain |-> "ab.io", Status |-> StatusTaken],
                [Domain |-> "xy.io", Status |-> StatusAvailable] >>

\* the scenario ran to its return, ab.io never reaching WHOIS
C13_Witness ==
  /\ C13_Scenario
  /\ whoisOut[1] = "none"
  /\ Len(output) = 2
  /\ output[2].Status = StatusAvailable
\* the number of WHOIS lookups made for the first n indices
RECURSIVE WhoisLookups(_)
WhoisLookups(n) ==
  IF n = 0 THEN 0 ELSE lookups[n].whois + WhoisLookups(n - 1)

\* the indices Phase 1 marked Available
MarkedAvailable ==
  {i \in Idx : checkDNS(domains[i], dnsOut[i]).Status = StatusAvailable}

\* C14: no probe is retried. Within one CheckBulkHybrid invocation no index
\* ever gets a second DNS probe or a second WHOIS lookup, whatever the probe
\* answered; at the return every index has had exactly one DNS probe, and
\* the WHOIS lookups made are one for each index Phase 1 marked Available.
C14_NoRetry ==
  op = "hybrid" =>
    /\ \A i \in Idx : lookups[i].dns <= 1 /\ lookups[i].whois <= 1
    /\ Returned =>
          /\ \A i \in Idx : lookups[i].dns = 1
          /\ \A i \in Idx : lookups[i].whois = 1 <=> i \in MarkedAvailable
          /\ WhoisLookups(N) = Cardinality(MarkedAvailable)

\* a batch returned in which one DNS probe and one WHOIS lookup failed with
\* a transport error
C14_Witness ==
  /\ HybridReturned /\ N = 2
  /\ dnsOut[1] = "dnserror" /\ lookups[1] = [dns |-> 1, whois |-> 0]
  /\ whoisOut[2] = "fail" /\ lookups[2] = [dns |-> 1, whois |-> 1]
\* the status the outcomes of the two lookups for index i alone call for
OwnStatus(i) ==
  IF dnsOut[i] # "notfound" THEN StatusTaken
  ELSE IF whoisOut[i] = "fail" THEN StatusTaken
  ELSE Classify(LowerBody(i))

\* C15: a transport failure on one domain does not affect its siblings. The
\* status CheckBulkHybrid returns at index i is determined by the DNS and
\* WHOIS outcomes of input[i] alone, whatever the other indices received,
\* and at the return every index has been probed and its goroutines have
\* completed.
C15_SiblingIsolation ==
  HybridReturned =>
    \A i \in Idx :
      /\ output[i] = [Domain |-> domains[i], Status |-> OwnStatus(i)]
      /\ dnsOut[i] # "none" /\ dnsTask[i] = "done"
      /\ dnsOut[i] = "notfound" =>
           (whoisOut[i] # "none" /\ whoisTask[i] = "done")

\* a batch returned in which the WHOIS lookup of one index failed after its
\* sibling had been found Available
C15_Witness ==
  /\ HybridReturned /\ N = 2
  /\ \E i, j \in Idx :
       /\ i # j
       /\ whoisOut[i] = "fail" /\ output[i].Status = StatusTaken
       /\ whoisOut[j] = "nomatch" /\ output[j].Status = StatusAvailable
\* C16: for a DNS error that is neither a success nor a definitive not-found
\* (timeout, refused, malformed), the DNS-only Check and the checkDNS
\* fallback of the WHOIS-first variant return the same verdict as the
\* checkDNS of Phase 1.
C16_SameErrorPolicy ==
  (/\ probe.kind = "dns" /\ verdict # NoVerdict
   /\ HasErr(probe.answer) /\ ~IsNotFound(probe.answer))
    => /\ verdict.dnsOnly.Status = verdict.checkDNS.Status
       /\ verdict.fallback.Status = verdict.checkDNS.Status
\* the tasks between their acquire and their release, and those of them
\* whose network call has not returned
Holding(task) ==
  {i \in Idx : task[i] \in {"lookup", "check", "hung", "release"}}
Calling(task) == {i \in Idx : task[i] \in {"lookup", "check", "hung"}}

\* the occupancy of a semaphore is the number of tasks in their lookup
\* section and stays within the capacity
Occupancy(sem, task, cap) ==
  /\ sem = Cardinality(Holding(task))
  /\ Cardinality(Calling(task)) <= sem
  /\ sem <= cap

\* a lookup is made by a task that holds a permit
LookupUnderPermit ==
  \A i \in Idx :
    /\ lookups'[i].dns # lookups[i].dns =>
         (i \in Holding(dnsTask) /\ semaphore > 0)
    /\ lookups'[i].whois # lookups[i].whois =>
         \/ op = "single"
         \/ op = "bulk" /\ i \in Holding(bulkTask) /\ semaphore > 0
         \/ op = "hybrid" /\ i \in Holding(whoisTask) /\ whoisSem > 0

CheckStored(i) ==
  \/ op = "bulk" /\ bulkTask[i] \in {"release", "exit", "done"}
  \/ op = "hybrid" /\ whoisTask[i] \in {"release", "exit", "done"}

StoredStatus(i) ==
  IF op = "bulk" THEN results[i].Status ELSE dnsResults[i].Status

\* the Check calls for i and j received the same failure or the same text
SameWhoisOutcome(i, j) ==
  /\ whoisOut[i] = whoisOut[j]
  /\ \/ whoisOut[i] = "fail"
     \/ /\ whoisOut[i] \in WhoisBodies
        /\ WhoisBody(whoisOut[i], domains[i])
             = WhoisBody(whoisOut[j], domains[j])

LengthNumerals == {"1", "2", "3", "+2", "02"}

\* the request is one ScanShort has to reject
Malformed ==
  hpc # "idle" /\
    (request.method # "POST" \/ request.length \notin LengthNumerals)

\* C19: a ScanShort request whose length parameter is not an integer in 1..3,
\* or whose method is not POST, is rejected with an error response; no
\* domain is generated and no DNS or WHOIS lookup is started for it.
C19_RejectedBeforeLookup ==
  Malformed =>
    /\ calls = NoCalls /\ generated = << >> /\ allResults = << >>
    /\ hpc \in {"start", "done"}
    /\ hpc = "done" =>
         /\ response.page = "error"
         /\ response.code = (IF request.method # "POST" THEN 405 ELSE 400)

\* the length "0" parsed as a number and the request was answered 400
C19_Witness ==
  /\ Malformed /\ hpc = "done"
  /\ request.method = "POST" /\ request.length = "0"
  /\ length = 0 /\ response.code = 400 /\ calls = NoCalls
\* the elements of a list
Elements(seq) == {seq[k] : k \in 1..Len(seq)}

\* C20: in the daily scan every domain handed to sendEmail is an Available
\* result of a CheckBulkHybrid batch, every Available result of every batch
\* is handed over, and sendEmail is called if and only if at least one
\* Available result exists.
C20_ReportIsTheAvailableSet ==
  /\ Len(emailed) <= 1
  /\ \A c \in 1..Len(emailed) :
       /\ dpc = "exited"
       /\ Elements(emailed[c]) = found
       /\ Len(emailed[c]) = Cardinality(found)
       /\ \A k \in 1..Len(emailed[c]) :
            /\ emailed[c][k].Status = StatusAvailable
            /\ emailed[c][k].Domain \in world
  /\ (dpc = "exited" /\ envSet) => (Len(emailed) = 1 <=> found # {})
  /\ (dpc = "exited" /\ ~envSet) => (emailed = << >> /\ found = {})

\* the scan over prefixes2 reported a 1-character and two 2-character names
C20_Witness ==
  /\ dpc = "exited" /\ variant = "prefixes"
  /\ Len(emailed) = 1
  /\ {r.Domain : r \in Elements(emailed[1])} = {"a.io", "ab.ai", "zz.com"}
\* the selection has been made or a Phase 2 goroutine exists
Phase2Begun ==
  \/ mainpc \in {"spawn2", "returned"}
  \/ candidates # << >>
  \/ \E i \in Idx : whoisTask[i] # "idle" \/ lookups[i].whois > 0

\* a goroutine that has been started and has not finished
Running(task, i) == task[i] \notin {"idle", "done"}

\* C21: Phase 2 never overlaps Phase 1. In CheckBulkHybrid the candidates
\* are not computed and no WHOIS lookup starts before every DNS probe has
\* completed and written its provisional result, so the DNS goroutine and
\* the WHOIS goroutine of an index never run at the same time.
C21_PhasesDoNotOverlap ==
  op = "hybrid" =>
    /\ Phase2Begun =>
         \A j \in Idx :
           /\ dnsTask[j] = "done" /\ dnsOut[j] # "none"
           /\ Len(writes[j]) >= 1 /\ writes[j][1] = "dns"
           /\ dnsResults[j] # ZeroResult
    /\ wg > 0 => (wg2 = 0 /\ whoisSem = 0)
    /\ \A i \in Idx : ~(Running(dnsTask, i) /\ Running(whoisTask, i))

\* a WHOIS lookup of a two-name batch is in progress, Phase 1 being over
C21_Witness ==
  /\ op = "hybrid" /\ N = 2
  /\ \E i \in Idx : whoisTask[i] = "check"
  /\ \A j \in Idx : dnsTask[j] = "done"
  /\ wg = 0 /\ wg2 > 0
\* the reference verdict: Taken when the DNS probe resolved or failed with
\* an error other than not-found, otherwise what Check makes of the WHOIS
\* outcome
Reference(i) ==
  IF dnsOut[i] \in {"resolves", "dnserror", "othererror"}
  THEN [Domain |-> domains[i], Status |-> StatusTaken]
  ELSE Check(domains[i], whoisOut[i])

\* C22: the output of CheckBulkHybrid equals the reference. Every index that
\* Phase 1 marked Available has been WHOIS-checked and carries the WHOIS
\* verdict, every other index carries Taken from its DNS probe alone, and no
\* Available verdict in the output rests on DNS only.
C22_OutputIsReference ==
  HybridReturned =>
    /\ \A i \in Idx :
         /\ dnsOut[i] = "notfound" =>
              (whoisOut[i] \in WhoisAnswers /\ writes[i] = << "dns", "whois" >>)
         /\ dnsOut[i] # "notfound" =>
              (whoisOut[i] = "none" /\ writes[i] = << "dns" >>)
         /\ output[i].Status = StatusAvailable => whoisOut[i] = "nomatch"
    /\ output = [i \in 1..N |-> Reference(i)]

\* a batch returned with one name Taken by DNS alone and one candidate that
\* WHOIS found registered
C22_Witness ==
  /\ HybridReturned /\ N = 2
  /\ dnsOut[1] = "dnserror" /\ whoisOut[1] = "none"
  /\ dnsOut[2] = "notfound" /\ whoisOut[2] = "registered"
  /\ output[1].Status = StatusTaken /\ output[2].Status = StatusTaken
\* slot j is assigned in this step
SlotWritten(j) == dnsResults'[j] # dnsResults[j] \/ writes'[j] # writes[j]

\* a step of Phase 2 that assigns slot j is the Check of the goroutine of
\* candidate j, storing a whole result, and assigns no other slot
Phase2Frame ==
  (op = "hybrid" /\ mainpc = "spawn2") =>
    \A j \in Idx :
      SlotWritten(j) =>
        /\ j \in Elements(candidates)
        /\ whoisTask[j] = "check" /\ whoisTask'[j] = "release"
        /\ dnsResults'[j] = Check(domains[j], whoisOut'[j])
        /\ writes'[j] = Append(writes[j], "whois")
        /\ \A k \in Idx \ {j} : ~SlotWritten(k)

\* the slots Phase 1 marked Taken still hold what Phase 1 stored
TakenSlotsKept ==
  (op = "hybrid" /\ Phase2Begun) =>
    \A i \in Idx :
      checkDNS(domains[i], dnsOut[i]).Status = StatusTaken =>
        /\ dnsResults[i] = checkDNS(domains[i], dnsOut[i])
        /\ writes[i] = << "dns" >>
        /\ whoisTask[i] = "idle"
        /\ i \notin Elements(candidates)

\* C23: Phase 2 of CheckBulkHybrid modifies only candidate indices. A Phase 2
\* task for index i replaces slot i as a whole and assigns no other slot,
\* and every index Phase 1 marked Taken keeps its Phase 1 result, never
\* assigned again, until the return.
C23_Phase2WritesCandidatesOnly ==
  /\ [][Phase2Frame]_vars
  /\ []TakenSlotsKept

\* Phase 2 has confirmed the candidate at index 2 while index 1, Taken by
\* DNS, still holds its Phase 1 result
C23_Witness ==
  /\ op = "hybrid" /\ N = 2 /\ mainpc = "spawn2"
  /\ candidates = << 2 >>
  /\ writes = << << "dns" >>, << "dns", "whois" >> >>
  /\ dnsOut[1] = "resolves"
  /\ dnsResults[1] = [Domain |-> domains[1], Status |-> StatusTaken]
\* the lower-cased text of the response that was checked
Lowered == ToLower(probe.whoisResult)

\* the three conditions of an Available verdict, on the lower-cased text
NoRegistrationIndicator ==
  \A k \in 1..Len(takenPatterns) : ~Contains(Lowered, takenPatterns[k])
NoPremiumIndicator ==
  /\ \/ ~(Contains(Lowered, "premium") \/ Contains(Lowered, "platinum"))
     \/ \A x \in {"purchase", "contact", "offer", "reserved"} :
          ~Contains(Lowered, x)
  /\ ~Contains(Lowered, "this name is reserved")
SomeAvailabilityIndicator ==
  \E k \in 1..Len(availablePatterns) : Contains(Lowered, availablePatterns[k])

\* C24: on a present WHOIS response Check returns Available if and only if
\* the lower-cased text contains no takenPatterns entry, does not satisfy the
\* premium/reserved rule and contains an availablePatterns entry; in every
\* other case, a text that matches no list included, it returns Taken.
C24_AvailableIff ==
  (Checked /\ ~probe.failed) =>
    /\ verdict.check.Domain = probe.domain
    /\ verdict.check.Status \in {StatusAvailable, StatusTaken}
    /\ verdict.check.Status = StatusAvailable <=>
         (/\ NoRegistrationIndicator
          /\ NoPremiumIndicator
          /\ SomeAvailabilityIndicator)

\* a response that matches no list at all was checked and found Taken
C24_Witness ==
  /\ Checked /\ ~probe.failed
  /\ probe.whoisResult = "Contact us"
  /\ NoRegistrationIndicator /\ NoPremiumIndicator
  /\ ~SomeAvailabilityIndicator
  /\ verdict.check.Status = StatusTaken
\* checkDNS has answered the probe
DnsChecked == probe.kind = "dns" /\ verdict # NoVerdict

\* the resolver answered before the 10-second deadline
InTime == probe.elapsed < 10

\* C25: the Phase 1 probe checkDNS returns Taken when the name resolves,
\* Available only when the resolver reports a DNS error flagged not-found,
\* and Taken for every other error, the expiry of the 10-second lookup
\* deadline included.
C25_DnsVerdicts ==
  DnsChecked =>
    /\ verdict.checkDNS.Domain = probe.domain
    /\ verdict.checkDNS.Status \in {StatusAvailable, StatusTaken}
    /\ verdict.checkDNS.Status = StatusAvailable <=>
         (InTime /\ probe.answer = "notfound")
    /\ (InTime /\ probe.answer = "resolves") =>
         verdict.checkDNS.Status = StatusTaken
    /\ (InTime /\ probe.answer \in {"dnserror", "othererror"}) =>
         verdict.checkDNS.Status = StatusTaken
    /\ ~InTime => verdict.checkDNS.Status = StatusTaken

\* a not-found answer that would have taken 11 seconds: the deadline expired
\* and the name was reported Taken
C25_Witness ==
  /\ DnsChecked
  /\ probe.answer = "notfound" /\ probe.elapsed = 11
  /\ verdict.checkDNS.Status = StatusTaken
\* the WHOIS lookups invocation b has in flight
ParInFlight(b) == {i \in BIdx(b) : batch[b].whoisTask[i] = "check"}

\* what invocation b returns when it runs alone with the same answers
AloneOutput(b) ==
  [i \in BIdx(b) |->
     IF batch[b].dnsOut[i] = "notfound"
     THEN Check(batch[b].domains[i], batch[b].whoisOut[i])
     ELSE checkDNS(batch[b].domains[i], batch[b].dnsOut[i])]

\* C26: concurrent CheckBulkHybrid invocations on the same Checker share no
\* mutable state. Each has its own result array, semaphores and wait groups:
\* the output of an invocation is what it returns when it runs alone with
\* the same answers, and each invocation has at most 5 WHOIS lookups in
\* flight.
C26_InvocationsIndependent ==
  \A b \in Batches :
    /\ Cardinality(ParInFlight(b)) <= 5
    /\ batch[b].whoisSem <= 5
    /\ batch[b].whoisSem =
         Cardinality({i \in BIdx(b) :
                        batch[b].whoisTask[i] \in {"check", "release"}})
    /\ batch[b].wg =
         Cardinality({i \in BIdx(b) :
                        batch[b].dnsTask[i] \notin {"idle", "done"}})
    /\ batch[b].wg2 =
         Cardinality({i \in BIdx(b) :
                        batch[b].whoisTask[i] \notin {"idle", "done"}})
    /\ batch[b].mainpc = "returned" =>
         /\ \A i \in BIdx(b) :
              batch[b].dnsOut[i] = "notfound" <=> batch[b].whoisOut[i] # "none"
         /\ batch[b].output = AloneOutput(b)

\* six WHOIS lookups are in flight at once, five of the wide request and one
\* of the other
C26_Witness ==
  /\ Batches = {1, 2}
  /\ Cardinality(ParInFlight(1)) = 5
  /\ Cardinality(ParInFlight(2)) = 1
\* 36 to the power n
RECURSIVE Pow36(_)
Pow36(n) == IF n = 0 THEN 1 ELSE 36 * Pow36(n - 1)

\* the lower-case letters and the digits
Alphabet ==
  {"a", "b", "c", "d", "e", "f", "g", "h", "i", "j", "k", "l", "m",
   "n", "o", "p", "q", "r", "s", "t", "u", "v", "w", "x", "y", "z",
   "0", "1", "2", "3", "4", "5", "6", "7", "8", "9"}

\* str consists of characters of the alphabet
Alphanumeric(str) ==
  \A p \in 1..Len(str) : SubSeq(str, p, p) \in Alphabet

\* d is a name of len characters that starts with pre and continues over the
\* alphabet, followed by a dot and the t-th suffix
WellFormed(d, len, pre, t) ==
  /\ Len(d) = len + 1 + Len(PremiumTLDs[t])
  /\ SubSeq(d, 1, Len(pre)) = pre
  /\ Alphanumeric(SubSeq(d, Len(pre) + 1, len))
  /\ SubSeq(d, len + 1, Len(d)) = "." \o PremiumTLDs[t]

\* the generator was called with the arguments length and prefix
Generated == calls.generate = 1

\* the positions of the result that are inspected: all of them, or the first
\* and the last 24 when the result has the 1119744 names of three characters
Inspected ==
  IF Len(generated) <= 31104 THEN 1..Len(generated)
  ELSE (1..24) \cup ((Len(generated) - 23)..Len(generated))

\* C27: GenerateShortDomainsMultiTLD(length, prefix) returns nil when length
\* is outside 1..3 or the prefix is longer than length; otherwise it returns
\* exactly 36^(length - len(prefix)) x 24 domains, all different, each a
\* name of exactly length characters that starts with the prefix, joined to
\* a suffix of PremiumTLDs, the suffixes cycling in the order of the list
\* (so that every name meets every suffix); a ScanShort request never has
\* more than 864 domains checked.
C27_GeneratorCount ==
  /\ Generated =>
       IF length < 1 \/ length > 3 \/ Len(prefix) > length
       THEN generated = << >>
       ELSE /\ Len(generated) = Pow36(length - Len(prefix)) * 24
            /\ \A k \in Inspected :
                 WellFormed(generated[k], length, prefix, ((k - 1) % 24) + 1)
            /\ Len(generated) <= 31104 =>
                 Cardinality({generated[k] : k \in Inspected})
                   = Len(generated)
  /\ calls.hybrid = 1 =>
       (Len(generated) <= 864 /\ Len(allResults) = Len(generated))

\* the direct call for the names of three characters that start with "z9"
C27_Witness ==
  /\ hpc = "called" /\ length = 3 /\ prefix = "z9"
  /\ Len(generated) = 864
  /\ generated[1] = "z9a.com" /\ generated[864] = "z99.at"

\* the lines of the posted form, and those of them that hold a name
PostedLines == Split(request.domains, "\n")
NamedIn(lines) ==
  {k \in 1..Len(lines) :
     \E i \in 1..Len(lines[k]) : ~IsSpace(SubSeq(lines[k], i, i))}
NamedLines == NamedIn(PostedLines)

\* the j-th member of a set of line numbers
Nth(S, j) == CHOOSE k \in S : Cardinality({m \in S : m <= k}) = j

\* the name that a line holds: the line without the white space around it
Holds(line, name) ==
  /\ Len(name) > 0
  /\ ~IsSpace(SubSeq(name, 1, 1)) /\ ~IsSpace(SubSeq(name, Len(name), Len(name)))
  /\ \E i \in 1..(Len(line) - Len(name) + 1) :
       /\ SubSeq(line, i, i + Len(name) - 1) = name
       /\ \A m \in (1..(i - 1)) \cup ((i + Len(name))..Len(line)) :
            IsSpace(SubSeq(line, m, m))

HasNewline(s) == \E i \in 1..Len(s) : SubSeq(s, i, i) = "\n"

\* the characters of the first n lines together
RECURSIVE SumLen(_, _)
SumLen(lines, n) ==
  IF n = 0 THEN 0 ELSE SumLen(lines, n - 1) + Len(lines[n])

HasDot(name) == \E i \in 1..Len(name) : SubSeq(name, i, i) = "."

\* the lines are the form cut at its line feeds
CutAtLineFeeds(lines) ==
  /\ \A k \in 1..Len(lines) : ~HasNewline(lines[k])
  /\ Len(request.domains) = SumLen(lines, Len(lines)) + Len(lines) - 1

\* the domain that is checked for a line: the name it holds, with ".com"
\* appended when the name has no dot
CheckedFor(line, d) ==
  \/ /\ HasDot(d)
     /\ Holds(line, d)
  \/ /\ Len(d) > 4
     /\ SubSeq(d, Len(d) - 3, Len(d)) = ".com"
     /\ ~HasDot(SubSeq(d, 1, Len(d) - 4))
     /\ Holds(line, SubSeq(d, 1, Len(d) - 4))

\* C28: the checker is given at most 50 domains per request: the first 50
\* lines of the form that hold a name, in their order, each without the white
\* space around it and with ".com" appended when it has no dot; a request
\* without such a line, or one that is not a POST, ends with an error and
\* without a call of the checker.
C28_FirstFifty ==
  /\ calls.bulk <= 1
  /\ hpc = "done" /\ calls.bulk = 0 =>
       /\ response.code \in {400, 405}
       /\ response.code = 405 <=> request.method # "POST"
       /\ response.code = 400 => NamedLines = {}
       /\ allResults = << >>
  /\ hpc \in {"bulk-check", "bulk-render"} \/ calls.bulk = 1 =>
       LET lines == PostedLines
           named == NamedIn(lines)
           first == {k \in named : Cardinality({m \in named : m <= k}) <= 50}
       IN  /\ request.method = "POST"
           /\ CutAtLineFeeds(lines)
           /\ Len(generated) <= MaxBulkDomains
           /\ Len(generated) = Cardinality(first)
           /\ Len(generated) > 0
           /\ \A j \in 1..Len(generated) :
                CheckedFor(lines[Nth(first, j)], generated[j])
  /\ calls.bulk = 1 =>
       /\ Len(allResults) = Len(generated)
       /\ \A j \in 1..Len(allResults) : allResults[j].Domain = generated[j]

\* a form of more than 50 names, some lines of it empty, was checked
C28_Witness ==
  /\ hpc = "done" /\ calls.bulk = 1
  /\ Cardinality(NamedLines) > 50
  /\ Cardinality(NamedLines) < Len(PostedLines)
  /\ Len(allResults) = 50
  /\ allResults[1].Domain = "n1.com" /\ allResults[2].Domain = "n2.io"
  /\ allResults[50].Domain = "n57.com"
====
